---- MODULE Spec2Model ----
(***************************************************************************)
(* A model of the TritonGPU -> LLVM lowering of                            *)
(* lib/Conversion/TritonGPUToLLVM/TritonGPUToLLVM.cpp: the layout geometry *)
(* (index linearisation, per-lane base index, per-lane index enumeration), *)
(* the vector-width rule of the load/store lowering, the broadcast         *)
(* lowering, the layout conversion through the shared staging buffer with  *)
(* the lanes of a cooperative group executing the emitted instruction      *)
(* stream, and the three-phase driver of the pass.                         *)
(*                                                                         *)
(* Conventions.  A C++ vector v of length r is the sequence <<v[0], ...,   *)
(* v[r-1]>>; At(v, k) reads the 0-based position k, as the source does.    *)
(* The emitted index type has 32 bits; every value of the model stays far   *)
(* below 2^31 (TLC's own integer range), so no emitted operation wraps.    *)
(* Several sub-models share the module; each has its own Init, Next and    *)
(* specification and leaves the variables of the others at their idle      *)
(* values.                                                                 *)
(***************************************************************************)
EXTENDS Integers, Sequences, FiniteSets, Bags, TLC

VARIABLES
  assertsEnabled, \* the build: TRUE when assert() is compiled in, FALSE under NDEBUG
  srcTy,        \* operand tensor type of the operation under lowering: [shape, layout]
  dstTy,        \* result tensor type of the operation under lowering: [shape, layout]
  rtKind,       \* round trip: "none" | "runtime" (delinearize/linearize) | "compile" (getMultiDimIndex/getLinearIndex)
  rtLinear,     \* round trip: the linear index given
  rtMulti,      \* round trip: the multi-dimensional index computed from it
  rtBack,       \* round trip: the linear index computed back
  rtPhase,      \* round trip: "start" | "delinearized" | "linearized"
  rec,          \* the per-lane records: the struct value assembled from scalars and what is extracted from it
  idx,          \* emitIndices per tensor ("src", "dst"): [status: "none" | "done" | "abort",
                \*   offsets: per record position n and dimension k the constant added to the base index]
  mem,          \* the load/store lowering: the axis facts of the pointer and what the lowering chose
  bc,           \* the broadcast lowering: the result record's slots as positions of the operand record
  cvt,          \* the layout conversion: the emitted instruction stream and its execution by the sub-groups
  drv,          \* the driver of the pass: its position, the module under conversion, the staging buffer
  ssa           \* the toy front-end: the blocks built so far, the SSA bookkeeping of the module, the pending calls

cfgVars == <<assertsEnabled, srcTy, dstTy>>
rtVars == <<rtKind, rtLinear, rtMulti, rtBack, rtPhase>>
lowVars == <<mem, bc, cvt, drv>>
vars == <<assertsEnabled, srcTy, dstTy, rtKind, rtLinear, rtMulti, rtBack, rtPhase, idx, rec,
          mem, bc, cvt, drv, ssa>>

----------------------------------------------------------------------------
(* Arithmetic helpers *)

At(v, k) == v[k + 1]

\* ceil<unsigned>(m, n) of triton/Analysis/Utility.h
ceil(m, n) == (m + n - 1) \div n

Min(a, b) == IF a < b THEN a ELSE b

Max(a, b) == IF a > b THEN a ELSE b

RECURSIVE product(_)
product(v) == IF Len(v) = 0 THEN 1 ELSE Head(v) * product(Tail(v))

Pow2(e) == 2 ^ e

\* the sequences of length r over the set S
SeqsOf(S, r) == [1..r -> S]

\* the permutations of 0..r-1, as sequences
Perms(r) == {p \in [1..r -> 0..(r - 1)] : \A i, j \in 1..r : p[i] = p[j] => i = j}

----------------------------------------------------------------------------
(* Index linearisation *)

\* getMultiDimIndex: acc_mul starts as shape[1]*...*shape[rank-1]; position i
\* takes linear_remain / acc_mul, the remainder goes on and acc_mul is divided
\* by shape[i+1].
RECURSIVE getMultiDimIndexLoop(_, _, _, _)
getMultiDimIndexLoop(i, linear_remain, acc_mul, shp) ==
  IF i >= Len(shp) THEN <<>>
  ELSE <<linear_remain \div acc_mul>> \o
       getMultiDimIndexLoop(i + 1, linear_remain % acc_mul,
                            IF i # Len(shp) - 1 THEN acc_mul \div At(shp, i + 1) ELSE acc_mul,
                            shp)

getMultiDimIndex(linear_index, shp) ==
  getMultiDimIndexLoop(0, linear_index, (product(Tail(shp))), shp)

RECURSIVE getLinearIndexLoop(_, _, _, _)
getLinearIndexLoop(i, multidim_index, acc_mul, shp) ==
  IF i >= Len(shp) THEN 0
  ELSE At(multidim_index, i) * acc_mul +
       getLinearIndexLoop(i + 1, multidim_index,
                          IF i # Len(shp) - 1 THEN acc_mul \div At(shp, i + 1) ELSE acc_mul,
                          shp)

getLinearIndexWrong(multidim_index, shp) ==
  (getLinearIndexLoop(0, multidim_index, (product(shp)) \div At(shp, Len(shp) - 1), shp))

getLinearIndex(multidim_index, shp) ==
  (getLinearIndexLoop(0, multidim_index, (product(Tail(shp))), shp))

\* delinearize without order: the dimensions rank-1 down to 1 take
\* remained % dimSize, remained / dimSize goes on, dimension 0 takes the rest.
RECURSIVE delinearizeRemained(_, _, _)
delinearizeRemained(linear, shp, done) ==
  IF done = 0 THEN linear
  ELSE delinearizeRemained(linear, shp, done - 1) \div At(shp, Len(shp) - done)

delinearize(linear, shp) ==
  IF Len(shp) = 1 THEN <<linear>>
  ELSE [k1 \in 1..Len(shp) |->
          IF k1 = 1 THEN delinearizeRemained(linear, shp, Len(shp) - 1)
          ELSE delinearizeRemained(linear, shp, Len(shp) - k1) % shp[k1]]

\* delinearize with order: the shape is permuted by order, delinearized, and
\* the result permuted back (multiDim[order[i]] = reorderedMultiDim[i]).
delinearizeOrdered(linear, shp, order) ==
  LET reordered == [i1 \in 1..Len(shp) |-> At(shp, order[i1])]
      reorderedMultiDim == delinearize(linear, reordered)
  IN [k1 \in 1..Len(shp) |->
        reorderedMultiDim[CHOOSE i1 \in 1..Len(shp) : order[i1] = k1 - 1]]

\* linearize: Horner's rule over multiDim.drop_front() and shape.drop_front()
RECURSIVE linearizeLoop(_, _, _, _)
linearizeLoop(linear, multiDim, shp, i) ==
  IF i >= Len(multiDim) THEN linear
  ELSE linearizeLoop(((linear * At(shp, i)) + At(multiDim, i)), multiDim, shp, i + 1)

linearizeNoDropFront(multiDim, shp) ==
  IF Len(multiDim) = 0 THEN 0
  ELSE linearizeLoop(At(multiDim, 0), multiDim, <<1>> \o shp, 1)

linearize(multiDim, shp) ==
  IF Len(multiDim) = 0 THEN 0
  ELSE linearizeLoop(At(multiDim, 0), multiDim, shp, 1)

----------------------------------------------------------------------------
(* Layouts *)

\* the hard-wired sub-group width of emitBaseIndexForBlockedLayout
warpSize == 32

Blocked(spt, tpw, wpc, ord) ==
  [kind |-> "blocked", sizePerThread |-> spt, threadsPerWarp |-> tpw,
   warpsPerCTA |-> wpc, order |-> ord]

isBlocked(l) == l.kind = "blocked"

numWarpsOf(l) == product(l.warpsPerCTA)

\* the lanes of the cooperative group: thread ids 0 .. 32 * numWarps - 1
Lanes(l) == 0..(warpSize * numWarpsOf(l) - 1)

\* sizePerThread[k] * threadsPerWarp[k] * warpsPerCTA[k]
shapePerCTA(l, k) == At(l.sizePerThread, k) * At(l.threadsPerWarp, k) * At(l.warpsPerCTA, k)

\* BlockedEncodingAttr::getElemsPerThread
getElemsPerThread(l, shp) ==
  product([k1 \in 1..Len(shp) |->
             ceil(shp[k1], shapePerCTA(l, k1 - 1)) * l.sizePerThread[k1]])

\* every shape[k] is divisible by the tiling period of the layout
FullyTiles(l, shp) ==
  \A k \in 0..(Len(shp) - 1) : At(shp, k) % shapePerCTA(l, k) = 0

----------------------------------------------------------------------------
(* Per-lane base index and index enumeration of a Blocked layout *)

\* a variant without the wrap-around of the lane and sub-group coordinates
emitBaseIndexNoWrapAround(l, shp, threadId) ==
  LET laneId == threadId % warpSize
      warpId == threadId \div warpSize
      multiDimWarpId == delinearizeOrdered(warpId, l.warpsPerCTA, l.order)
      multiDimThreadId == delinearizeOrdered(laneId, l.threadsPerWarp, l.order)
  IN [k1 \in 1..Len(shp) |->
        l.sizePerThread[k1] * (multiDimThreadId[k1] + multiDimWarpId[k1] * l.threadsPerWarp[k1])]

emitBaseIndexForBlockedLayout(l, shp, threadId) ==
  LET laneId == threadId % warpSize
      warpId == threadId \div warpSize
      multiDimWarpId == delinearizeOrdered(warpId, l.warpsPerCTA, l.order)
      multiDimThreadId == delinearizeOrdered(laneId, l.threadsPerWarp, l.order)
  IN [k1 \in 1..Len(shp) |->
        LET maxWarps == ceil(shp[k1], l.sizePerThread[k1] * l.threadsPerWarp[k1])
            maxThreads == ceil(shp[k1], l.sizePerThread[k1])
        IN (l.sizePerThread[k1] *
               ((multiDimThreadId[k1] % maxThreads) +
                   ((multiDimWarpId[k1] % maxWarps) * l.threadsPerWarp[k1])))]

\* the per-lane record length computed by step 2 of emitIndicesForBlockedLayout
elemsPerThread(l, shp) ==
  product([k1 \in 1..Len(shp) |->
             ceil(shp[k1], shapePerCTA(l, k1 - 1)) * l.sizePerThread[k1]])

\* step 2: the length of the table offset[k] the four nested loops build
offsetTableSize(l, shp, k) ==
  ceil(At(shp, k), shapePerCTA(l, k)) * At(l.warpsPerCTA, k) *
  At(l.threadsPerWarp, k) * At(l.sizePerThread, k)

\* step 2: the entry the loops push at position p of offset[k]
offsetTableAt(l, shp, k, p) ==
  LET spt == At(l.sizePerThread, k)
      tpw == At(l.threadsPerWarp, k)
      wpc == At(l.warpsPerCTA, k)
      elemOffset == p % spt
      threadOffset == (p \div spt) % tpw
      warpOffset == (p \div (spt * tpw)) % wpc
      blockOffset == p \div (spt * tpw * wpc)
  IN blockOffset * spt * tpw * wpc + warpOffset * spt * tpw +
     threadOffset * spt + elemOffset

\* step 3: the position of offset[k] read for record position n
reorderedMultiDimId(l, shp, n, k) ==
  LET accumSizePerThread == product(l.sizePerThread)
      threadsPerDim == [k1 \in 1..Len(shp) |-> ceil(shp[k1], l.sizePerThread[k1])]
      multiDimNanoTileId == getMultiDimIndex(n \div accumSizePerThread, threadsPerDim)
      multiElemsInNanoTileId == getMultiDimIndex(n % accumSizePerThread, l.sizePerThread)
  IN At(multiDimNanoTileId, k) * shapePerCTA(l, k) + At(multiElemsInNanoTileId, k)

\* the reads offset[k][pos] of step 3 that lie past the end of the table
OobReads(l, shp) ==
  {kp \in {<<k, reorderedMultiDimId(l, shp, n, k)>> :
             k \in 0..(Len(shp) - 1), n \in 0..(elemsPerThread(l, shp) - 1)} :
     kp[2] >= offsetTableSize(l, shp, kp[1])}

\* the constants offset[k][reorderedMultiDimId] for every record position n;
\* g gives the value read at each position past the end of a table
emitIndicesForBlockedLayout(l, shp, g) ==
  [n1 \in 1..elemsPerThread(l, shp) |->
     [k1 \in 1..Len(shp) |->
        LET pos == reorderedMultiDimId(l, shp, n1 - 1, k1 - 1)
        IN IF pos < offsetTableSize(l, shp, k1 - 1)
           THEN offsetTableAt(l, shp, k1 - 1, pos)
           ELSE g[<<k1 - 1, pos>>]]]

\* multiDimIdx[n] of lane threadId: base index plus the emitted constant
IndexOf(t, threadId, n) ==
  LET ty == IF t = "src" THEN srcTy ELSE dstTy
      base == emitBaseIndexForBlockedLayout(ty.layout, ty.shape, threadId)
  IN [k1 \in 1..Len(ty.shape) |-> (base[k1] + idx[t].offsets[n + 1][k1])]

----------------------------------------------------------------------------
(* The inputs drawn by the initial states *)

\* round trips: shapes of rank 1..MaxRtRank with extents 1..MaxRtExtent
MaxRtRank == 3

MaxRtExtent == 3

\* tensors have at most 2^MaxLogElems elements, every extent a power of two
MaxLogElems == 7

\* a lane's sizePerThread tile has at most 2^MaxLogTile elements
MaxLogTile == 2

Pow2UpTo(maxLog) == {Pow2(e) : e \in 0..maxLog}

\* the ways to write n (a power of two) as a product of r powers of two
Factorizations(n, r) == {v \in SeqsOf({d \in 1..n : n % d = 0}, r) : product(v) = n}

GeoRanks == {1, 2}

NumWarpsChoices == {1, 2}

Shapes(r) ==
  {v \in SeqsOf(Pow2UpTo(MaxLogElems), r) : product(v) <= Pow2(MaxLogElems)}

SizePerThreadChoices(r) ==
  {v \in SeqsOf(Pow2UpTo(MaxLogTile), r) : product(v) <= Pow2(MaxLogTile)}

\* the Blocked layouts of rank r of a module with nw warps: threadsPerWarp
\* multiplies to the sub-group width and warpsPerCTA to the number of warps
BlockedLayouts(r, nw) ==
  {Blocked(spt, tpw, wpc, ord) :
     spt \in SizePerThreadChoices(r), tpw \in Factorizations(warpSize, r),
     wpc \in Factorizations(nw, r), ord \in Perms(r)}

\* the index space of a shape
IndexSpace(shp) == {c \in [1..Len(shp) -> 0..(Pow2(MaxLogElems + 1))] :
                      \A k1 \in 1..Len(shp) : c[k1] < shp[k1]}

----------------------------------------------------------------------------
(* Idle values of the sub-models *)

NoTy == [shape |-> <<1>>, layout |-> Blocked(<<1>>, <<warpSize>>, <<1>>, <<0>>)]

NoIdx == [t \in {"src", "dst"} |-> [status |-> "none", offsets |-> <<>>]]

NoRec == [status |-> "none"]

NoMem == [status |-> "none"]

NoBc == [status |-> "none"]

NoCvt == [status |-> "none"]

NoDrv == [pc |-> "none"]

NoSsa == [pc |-> "none"]

LowIdle ==
  /\ mem = NoMem
  /\ bc = NoBc
  /\ cvt = NoCvt
  /\ drv = NoDrv
  /\ ssa = NoSsa

RtIdle ==
  /\ rtKind = "none"
  /\ rtLinear = 0
  /\ rtMulti = <<>>
  /\ rtBack = 0
  /\ rtPhase = "start"

----------------------------------------------------------------------------
(* Round trips of the index linearisation *)

RtShapes == UNION {SeqsOf(1..MaxRtExtent, r) : r \in 1..MaxRtRank}

RtInit ==
  /\ assertsEnabled \in BOOLEAN
  /\ \E shp \in RtShapes : srcTy = [shape |-> shp, layout |-> NoTy.layout]
  /\ dstTy = srcTy
  /\ RtIdle
  /\ idx = NoIdx
  /\ rec = NoRec
  /\ LowIdle

\* the emitted udiv/urem chain of delinearize, for a lane's value i
Delinearize(i) ==
  /\ rtPhase = "start"
  /\ rtKind' = "runtime"
  /\ rtLinear' = i
  /\ rtMulti' = delinearize(i, srcTy.shape)
  /\ rtPhase' = "delinearized"
  /\ UNCHANGED <<cfgVars, ssa, rtBack, idx, rec, lowVars>>

\* the emitted mul/add chain of linearize
Linearize ==
  /\ rtPhase = "delinearized"
  /\ rtKind = "runtime"
  /\ rtBack' = linearize(rtMulti, srcTy.shape)
  /\ rtPhase' = "linearized"
  /\ UNCHANGED <<cfgVars, ssa, rtKind, rtLinear, rtMulti, idx, rec, lowVars>>

GetMultiDimIndex(i) ==
  /\ rtPhase = "start"
  /\ rtKind' = "compile"
  /\ rtLinear' = i
  /\ rtMulti' = getMultiDimIndex(i, srcTy.shape)
  /\ rtPhase' = "delinearized"
  /\ UNCHANGED <<cfgVars, ssa, rtBack, idx, rec, lowVars>>

GetLinearIndex ==
  /\ rtPhase = "delinearized"
  /\ rtKind = "compile"
  /\ rtBack' = getLinearIndex(rtMulti, srcTy.shape)
  /\ rtPhase' = "linearized"
  /\ UNCHANGED <<cfgVars, ssa, rtKind, rtLinear, rtMulti, idx, rec, lowVars>>

RtDelinearizeAny == \E i \in 0..(product(srcTy.shape) - 1) : Delinearize(i)

RtGetMultiDimIndexAny == \E i \in 0..(product(srcTy.shape) - 1) : GetMultiDimIndex(i)

RtNext ==
  \/ RtDelinearizeAny
  \/ Linearize
  \/ RtGetMultiDimIndexAny
  \/ GetLinearIndex

SpecRt == RtInit /\ [][RtNext]_vars

\* C5: for every non-empty shape with positive extents and every linear index
\* i below the product of the extents, linearize(delinearize(i, shape), shape)
\* is i again, and so is getLinearIndex(getMultiDimIndex(i, shape), shape).
C5_RoundTrip ==
  rtPhase = "linearized" =>
    /\ rtBack = rtLinear
    /\ Len(rtMulti) = Len(srcTy.shape)
    /\ \A k1 \in 1..Len(rtMulti) : rtMulti[k1] < srcTy.shape[k1]

\* the emitted pair has made a round trip over a shape of rank above 1 with
\* unequal extents, from the last index of the shape
C5_Witness ==
  /\ rtPhase = "linearized"
  /\ Len(srcTy.shape) > 1
  /\ srcTy.shape[1] # srcTy.shape[Len(srcTy.shape)]
  /\ rtLinear = product(srcTy.shape) - 1
  /\ rtLinear > 1
  /\ rtKind = "runtime"

----------------------------------------------------------------------------
(* Index enumeration of a Blocked layout over a shape *)

\* the values a read past the end of an offset table can give
GarbageValues == {0, 5}

TyOf(t) == IF t = "src" THEN srcTy ELSE dstTy

GeoInit ==
  /\ assertsEnabled \in BOOLEAN
  /\ \E r \in GeoRanks, nw \in NumWarpsChoices :
       srcTy \in {[shape |-> shp, layout |-> l] : shp \in Shapes(r), l \in BlockedLayouts(r, nw)}
  /\ dstTy = srcTy
  /\ RtIdle
  /\ idx = NoIdx
  /\ rec = NoRec
  /\ LowIdle

\* emitIndicesForBlockedLayout returns: every read of an offset table is inside
\* the table, or the build has no bounds assertion and the reads past the end
\* yield what the memory behind the table holds (one value v stands for it)
EmitIndices(t) ==
  /\ idx[t].status = "none"
  /\ isBlocked(TyOf(t).layout)
  /\ \E oob \in {OobReads(TyOf(t).layout, TyOf(t).shape)} :
       /\ oob # {} => ~assertsEnabled
       /\ \E v \in (IF oob = {} THEN {0} ELSE GarbageValues) :
            idx' = [idx EXCEPT ![t] =
                      [status |-> "done",
                       offsets |-> emitIndicesForBlockedLayout(
                                     TyOf(t).layout, TyOf(t).shape, [kp \in oob |-> v])]]
  /\ UNCHANGED <<cfgVars, ssa, rtVars, rec, lowVars>>

\* a read past the end of an offset table trips the bounds assertion of
\* SmallVector::operator[] when assertions are compiled in
EmitIndicesAbort(t) ==
  /\ idx[t].status = "none"
  /\ isBlocked(TyOf(t).layout)
  /\ OobReads(TyOf(t).layout, TyOf(t).shape) # {}
  /\ assertsEnabled
  /\ idx' = [idx EXCEPT ![t] = [status |-> "abort", offsets |-> <<>>]]
  /\ UNCHANGED <<cfgVars, ssa, rtVars, rec, lowVars>>

GeoEmitIndices == EmitIndices("src")

GeoEmitIndicesAbort == EmitIndicesAbort("src")

GeoNext ==
  \/ GeoEmitIndices
  \/ GeoEmitIndicesAbort

SpecGeo == GeoInit /\ [][GeoNext]_vars

\* the indices all lanes of the cooperative group produce for tensor t
ProducedIndices(t) ==
  {IndexOf(t, threadId, n) :
     threadId \in Lanes(TyOf(t).layout), n \in 0..(Len(idx[t].offsets) - 1)}

\* C1: for a Blocked layout that fully tiles the shape, the indices produced by
\* emitIndicesForBlockedLayout over all lanes of the cooperative group are the
\* full index space of the shape, each index produced exactly once, for every
\* rank.
C1_CoverageExactlyOnce ==
  (idx["src"].status # "none" /\ FullyTiles(srcTy.layout, srcTy.shape)) =>
    /\ idx["src"].status = "done"
    /\ ProducedIndices("src") = IndexSpace(srcTy.shape)
    /\ Cardinality(ProducedIndices("src")) =
         Cardinality(Lanes(srcTy.layout)) * Len(idx["src"].offsets)

----------------------------------------------------------------------------
(* The vector width of the load and store lowerings *)

\* the axis facts of a pointer along order[0] are powers of two up to 2^MaxLogAxis
MaxLogAxis == 2

\* pointer tensors of the load/store sub-model have at most 2^MaxLogMemElems
\* elements when their rank is above 1
MaxLogMemElems == 2

\* the bit widths of the element types drawn: i1, i8, f16, f32, f64
ElemBitsChoices == {1, 8, 16, 32, 64}

MemTypes ==
  {[shape |-> shp, layout |-> l] : shp \in Shapes(1), l \in BlockedLayouts(1, 1)}
  \cup {[shape |-> shp, layout |-> l] :
          shp \in {v \in Shapes(2) : product(v) <= Pow2(MaxLogMemElems)},
          l \in BlockedLayouts(2, 1)}

\* getAlignment: min(divisibility, contiguity) of the axis facts along order[0]
getAlignment(divisibility, contiguity) == Min(divisibility, contiguity)

getVectorizeSizeNoContigPerThread(l, shp, divisibility, contiguity) ==
  Min(At(shp, At(l.order, 0)), getAlignment(divisibility, contiguity))

\* getVectorizeSize: min(shape[order[0]], min(align, sizePerThread[order[0]]))
getVectorizeSize(l, shp, divisibility, contiguity) ==
  LET align == getAlignment(divisibility, contiguity)
      contigPerThread == At(l.sizePerThread, At(l.order, 0))
      vec == Min(align, contigPerThread)
  IN Min(At(shp, At(l.order, 0)), vec)

\* a variant whose words are always 32 bits wide
vectorPlanWordOf32Bits(l, shp, divisibility, contiguity, elemBits) ==
  LET numElems == getElemsPerThread(l, shp)
      vec == getVectorizeSize(l, shp, divisibility, contiguity)
      dtsize == Max(1, elemBits \div 8)
      valueElemNbits == dtsize * 8
      maxWordWidth == 32
      totalWidth == valueElemNbits * vec
      width == Min(totalWidth, maxWordWidth)
  IN [numElems |-> numElems, vec |-> vec, numVecs |-> numElems \div vec,
      width |-> width,
      nWords |-> Max(1, totalWidth \div width),
      wordNElems |-> Max(1, width \div valueElemNbits)]

\* a variant whose words always hold a full machine word of elements
vectorPlanFullWord(l, shp, divisibility, contiguity, elemBits) ==
  LET numElems == getElemsPerThread(l, shp)
      vec == getVectorizeSize(l, shp, divisibility, contiguity)
      dtsize == Max(1, elemBits \div 8)
      valueElemNbits == dtsize * 8
      maxWordWidth == Max(32, valueElemNbits)
      totalWidth == valueElemNbits * vec
      width == Min(totalWidth, maxWordWidth)
  IN [numElems |-> numElems, vec |-> vec, numVecs |-> numElems \div vec,
      width |-> width,
      nWords |-> Max(1, totalWidth \div width),
      wordNElems |-> maxWordWidth \div valueElemNbits]

\* what both lowerings compute before they emit the accesses of a lane: the
\* vector width, the number of vectors and the split of a vector into words
vectorPlan(l, shp, divisibility, contiguity, elemBits) ==
  LET numElems == getElemsPerThread(l, shp)
      vec == getVectorizeSize(l, shp, divisibility, contiguity)
      dtsize == Max(1, elemBits \div 8)
      valueElemNbits == dtsize * 8
      maxWordWidth == Max(32, valueElemNbits)
      totalWidth == valueElemNbits * vec
      width == Min(totalWidth, maxWordWidth)
  IN [numElems |-> numElems, vec |-> vec, numVecs |-> numElems \div vec,
      width |-> width,
      nWords |-> Max(1, totalWidth \div width),
      wordNElems |-> width \div valueElemNbits]

\* a variant that takes as predicate of group g mask element g
emitAccessesMaskOfGroupNumber(op, plan, hasMask) ==
  [g1 \in 1..ceil(plan.numElems, plan.vec) |->
     LET vecStart == (g1 - 1) * plan.vec
     IN [opcode |-> IF op = "store" THEN "st" ELSE "ld",
         pred |-> IF hasMask THEN <<"maskElems", g1 - 1>> ELSE <<"constant", 1>>,
         addr |-> <<"ptrElems", vecStart>>,
         elems |-> {vecStart + wordIdx * plan.wordNElems + elemIdx :
                      wordIdx \in 0..(plan.nWords - 1), elemIdx \in 0..(plan.wordNElems - 1)}]]

\* the loop over the vectors (vecStart = 0, vec, ... below numElems): one
\* predicated ld or st per vector, its predicate maskElems[vecStart] or the
\* constant 1, its address ptrElems[vecStart], and the record positions whose
\* elements make up its words
emitAccesses(op, plan, hasMask) ==
  [g1 \in 1..ceil(plan.numElems, plan.vec) |->
     LET vecStart == (g1 - 1) * plan.vec
     IN [opcode |-> IF op = "store" THEN "st" ELSE "ld",
         pred |-> IF hasMask THEN <<"maskElems", vecStart>> ELSE <<"constant", 1>>,
         addr |-> <<"ptrElems", vecStart>>,
         elems |-> {vecStart + wordIdx * plan.wordNElems + elemIdx :
                      wordIdx \in 0..(plan.nWords - 1), elemIdx \in 0..(plan.wordNElems - 1)}]]

MemInit ==
  /\ assertsEnabled \in BOOLEAN
  /\ srcTy \in MemTypes
  /\ dstTy = srcTy
  /\ RtIdle
  /\ idx = NoIdx
  /\ rec = NoRec
  /\ \E d \in Pow2UpTo(MaxLogAxis), c \in Pow2UpTo(MaxLogAxis), b \in ElemBitsChoices,
        m \in BOOLEAN :
       mem = [status |-> "none", divisibility |-> d, contiguity |-> c, elemBits |-> b,
              hasMask |-> m]
  /\ bc = NoBc
  /\ cvt = NoCvt
  /\ drv = NoDrv
  /\ ssa = NoSsa

\* a lowering of a load or a store up to the assertion inside its loop over the
\* vectors; a build with assertions stops there when the assertion is false
LowerMemOp(op) ==
  /\ mem.status = "none"
  /\ LET plan == vectorPlan(srcTy.layout, srcTy.shape, mem.divisibility,
                            mem.contiguity, mem.elemBits)
     IN /\ assertsEnabled => plan.wordNElems * plan.nWords * plan.numVecs = plan.numElems
        /\ mem' = [status |-> "lowered", op |-> op, divisibility |-> mem.divisibility,
                   contiguity |-> mem.contiguity, elemBits |-> mem.elemBits,
                   hasMask |-> mem.hasMask,
                   plan |-> plan,
                   instrs |-> emitAccesses(op, plan, mem.hasMask)]
  /\ UNCHANGED <<cfgVars, ssa, rtVars, idx, rec, bc, cvt, drv>>

LowerStore == LowerMemOp("store")

LowerLoad == LowerMemOp("load")

MemNext ==
  \/ LowerStore
  \/ LowerLoad

SpecMem == MemInit /\ [][MemNext]_vars

\* C6: in every load and store lowering the chosen vector width is at most
\* min(alignment, sizePerThread[order[0]], shape[order[0]]), where alignment is
\* min(divisibility, contiguity) along order[0], and the lane's number of
\* elements is a multiple of the vector width.
C6_VectorWidth ==
  mem.status = "lowered" =>
    /\ mem.plan.vec >= 1
    /\ mem.plan.vec <= mem.divisibility
    /\ mem.plan.vec <= mem.contiguity
    /\ mem.plan.vec <= At(srcTy.layout.sizePerThread, At(srcTy.layout.order, 0))
    /\ mem.plan.vec <= At(srcTy.shape, At(srcTy.layout.order, 0))
    /\ mem.plan.numElems % mem.plan.vec = 0

\* a store of a rank-2 tensor lowered with a vector width above 1 that the
\* alignment alone would have allowed to be larger, along order[0] = 1
C6_Witness ==
  /\ mem.status = "lowered"
  /\ mem.op = "store"
  /\ Len(srcTy.shape) = 2
  /\ At(srcTy.layout.order, 0) = 1
  /\ mem.plan.vec = 2
  /\ mem.plan.numElems = 4
  /\ Min(mem.divisibility, mem.contiguity) = 4

----------------------------------------------------------------------------
(* The broadcast lowering *)

\* a lane's result record of the broadcast sub-model has at most
\* 2^MaxLogBcElems slots, the result tensor at most 2^MaxLogBcShape elements
MaxLogBcElems == 2

MaxLogBcShape == 6

\* the dimensions d with srcShape[d] # resultShape[d], in increasing order
broadcastDims(srcShape, resultShape) ==
  LET D == {d \in 0..(Len(srcShape) - 1) : At(srcShape, d) # At(resultShape, d)}
      RECURSIVE asc(_)
      asc(X) == IF X = {} THEN <<>>
                ELSE LET m == CHOOSE x \in X : \A y \in X : x <= y
                     IN <<m>> \o asc(X \ {m})
  IN asc(D)

\* srcLogicalShape and resultLogicalShape: [cta(0..rank-1), spt(0..rank-1)]
srcLogicalShape(l, srcShape, resultShape) ==
  LET rank == Len(srcShape)
  IN [p1 \in 1..(2 * rank) |->
        LET d == (p1 - 1) % rank
        IN IF At(srcShape, d) # At(resultShape, d)
           THEN IF p1 <= rank THEN 1 ELSE Max(1, At(l.sizePerThread, d))
           ELSE IF p1 <= rank THEN ceil(At(resultShape, d), shapePerCTA(l, d))
                ELSE At(l.sizePerThread, d)]

resultLogicalShape(l, resultShape) ==
  LET rank == Len(resultShape)
  IN [p1 \in 1..(2 * rank) |->
        LET d == (p1 - 1) % rank
        IN IF p1 <= rank THEN ceil(At(resultShape, d), shapePerCTA(l, d))
           ELSE At(l.sizePerThread, d)]

broadcastSizes(l, srcShape, resultShape) ==
  LET rank == Len(srcShape)
      bd == broadcastDims(srcShape, resultShape)
      sls == srcLogicalShape(l, srcShape, resultShape)
      rls == resultLogicalShape(l, resultShape)
  IN [q1 \in 1..(2 * Len(bd)) |->
        IF q1 <= Len(bd) THEN At(rls, bd[q1]) \div At(sls, bd[q1])
        ELSE At(rls, bd[q1 - Len(bd)] + rank) \div At(sls, bd[q1 - Len(bd)] + rank)]

\* the position of resultVals written for source position i and duplicate j
resultLinearIndex(l, srcShape, resultShape, i, j) ==
  LET rank == Len(srcShape)
      bd == broadcastDims(srcShape, resultShape)
      nb == Len(bd)
      sls == srcLogicalShape(l, srcShape, resultShape)
      srcMultiDim == getMultiDimIndex(i, sls)
      bcastMultiDim == IF nb = 0 THEN <<>>
                       ELSE getMultiDimIndex(j, broadcastSizes(l, srcShape, resultShape))
      addAt(p) ==
        IF \E q \in 0..(nb - 1) : At(bd, q) = p
        THEN At(bcastMultiDim, CHOOSE q \in 0..(nb - 1) : At(bd, q) = p)
        ELSE IF \E q \in 0..(nb - 1) : At(bd, q) + rank = p
        THEN LET q == CHOOSE q0 \in 0..(nb - 1) : At(bd, q0) + rank = p
             IN At(bcastMultiDim, q + nb) * At(sls, q + nb)
        ELSE 0
      resultMultiDim == [p1 \in 1..(2 * rank) |-> srcMultiDim[p1] + addAt(p1 - 1)]
  IN getLinearIndex(resultMultiDim, resultLogicalShape(l, resultShape))

\* the two loops over i and j: for every position of resultVals the source
\* positions i written to it
broadcastResultVals(l, srcShape, resultShape) ==
  LET srcElems == getElemsPerThread(l, srcShape)
      resultElems == getElemsPerThread(l, resultShape)
      duplicates == product(broadcastSizes(l, srcShape, resultShape))
      writes == {<<i, resultLinearIndex(l, srcShape, resultShape, i, j)>> :
                   i \in 0..(srcElems - 1), j \in 0..(duplicates - 1)}
  IN [n1 \in 1..resultElems |-> {w[1] : w \in {x \in writes : x[2] = n1 - 1}}]

\* the source shapes a result shape can be broadcast from: some dimensions
\* have extent 1 instead
BroadcastSources(resultShape) ==
  {v \in SeqsOf(Pow2UpTo(MaxLogElems), Len(resultShape)) :
     \A k1 \in 1..Len(resultShape) : v[k1] = resultShape[k1] \/ v[k1] = 1}

BcInit ==
  /\ assertsEnabled \in BOOLEAN
  /\ \E r \in GeoRanks :
       \E shp \in Shapes(r), l \in BlockedLayouts(r, 1) :
         /\ product(shp) <= Pow2(MaxLogBcShape)
         /\ getElemsPerThread(l, shp) <= Pow2(MaxLogBcElems)
         /\ dstTy = [shape |-> shp, layout |-> l]
         /\ \E sshp \in BroadcastSources(shp) : srcTy = [shape |-> sshp, layout |-> l]
  /\ RtIdle
  /\ idx = NoIdx
  /\ rec = NoRec
  /\ mem = NoMem
  /\ bc = NoBc
  /\ cvt = NoCvt
  /\ drv = NoDrv
  /\ ssa = NoSsa

\* BroadcastOpConversion::matchAndRewrite: a position of resultVals holds the
\* operand value last written to it; a position never written holds no value
\* (-1)
BroadcastLower ==
  /\ bc.status = "none"
  /\ \E w \in {broadcastResultVals(srcTy.layout, srcTy.shape, dstTy.shape)} :
        bc' = [status |-> "done",
               writes |-> [n1 \in 1..Len(w) |-> Cardinality(w[n1])],
               resultVals |-> [n1 \in 1..Len(w) |->
                                 IF w[n1] = {} THEN -1
                                 ELSE CHOOSE i \in w[n1] : \A i2 \in w[n1] : i2 <= i]]
  /\ UNCHANGED <<cfgVars, ssa, rtVars, idx, rec, mem, cvt, drv>>

\* the enumerations of the operand type and of the result type, which the
\* result record is compared with, are taken once the lowering has run
EmitIndicesSrc ==
  /\ bc.status = "done"
  /\ EmitIndices("src")

EmitIndicesSrcAbort ==
  /\ bc.status = "done"
  /\ EmitIndicesAbort("src")

EmitIndicesDst ==
  /\ idx["src"].status # "none"
  /\ EmitIndices("dst")

EmitIndicesDstAbort ==
  /\ idx["src"].status # "none"
  /\ EmitIndicesAbort("dst")

BcNext ==
  \/ BroadcastLower
  \/ EmitIndicesSrc
  \/ EmitIndicesDst
  \/ EmitIndicesSrcAbort
  \/ EmitIndicesDstAbort

SpecBcast == BcInit /\ [][BcNext]_vars

\* coordinate c with the broadcast dimensions set to 0
ZeroBroadcast(c) ==
  [k1 \in 1..Len(c) |-> IF srcTy.shape[k1] # dstTy.shape[k1] THEN 0 ELSE c[k1]]

InShape(c, shp) == \A k1 \in 1..Len(shp) : c[k1] < shp[k1]

\* a coordinate taken modulo the extents: the slots of a record whose
\* enumerated coordinate lies outside the shape replicate the element there
Wrap(c, shp) == [k1 \in 1..Len(c) |-> c[k1] % shp[k1]]

\* C7: broadcasting a tensor of extent 1 on the broadcast dimensions to a
\* larger shape under one Blocked layout gives every lane, at the result slot
\* the enumeration of the result type assigns to coordinate c, the operand
\* value the enumeration of the operand type assigns to c with the broadcast
\* coordinates set to 0.
C7_BroadcastValue ==
  (/\ bc.status = "done"
   /\ srcTy.shape # dstTy.shape
   /\ idx["src"].status # "none"
   /\ idx["dst"].status # "none") =>
    /\ idx["src"].status = "done"
    /\ idx["dst"].status = "done"
    /\ \A t \in Lanes(dstTy.layout), n \in 0..(Len(bc.resultVals) - 1) :
         InShape(IndexOf("dst", t, n), dstTy.shape) =>
           /\ bc.writes[n + 1] = 1
           /\ Wrap(IndexOf("src", t, bc.resultVals[n + 1]), srcTy.shape) =
                ZeroBroadcast(IndexOf("dst", t, n))

----------------------------------------------------------------------------
(* The layout conversion through the shared staging buffer: what          *)
(* ConvertLayoutOpConversion emits                                        *)

\* a layout that is not Blocked
NonBlocked == [kind |-> "shared"]

\* getScratchConfigForCvtLayout of the allocation analysis: the vector widths
\* of the two sides and the padded shape of one replica in the buffer
getScratchConfigForCvtLayout(sTy, dTy) ==
  LET inOrd == sTy.layout.order
      outOrd == dTy.layout.order
      inVec == IF At(outOrd, 0) = 0 THEN 1
               ELSE IF At(inOrd, 0) = 0 THEN 1
               ELSE At(sTy.layout.sizePerThread, At(inOrd, 0))
      outVec == IF At(outOrd, 0) = 0 THEN 1
                ELSE At(dTy.layout.sizePerThread, At(outOrd, 0))
      pad == Max(inVec, outVec)
  IN [inVec |-> inVec, outVec |-> outVec,
      paddedRepShape |->
        [d1 \in 1..Len(dTy.shape) |->
           Max(Min(sTy.shape[d1], shapePerCTA(sTy.layout, d1 - 1)),
               Min(dTy.shape[d1], shapePerCTA(dTy.layout, d1 - 1)))
           + (IF d1 - 1 = At(outOrd, 0) THEN pad ELSE 0)]]

\* a variant whose replication pass is the source side's pass
cvtPlanSourcePass(sTy, dTy) ==
  LET shp == dTy.shape
      inPerCTA(d) == Min(At(shp, d), shapePerCTA(sTy.layout, d))
      outPerCTA(d) == Min(At(shp, d), shapePerCTA(dTy.layout, d))
      maxPerCTA(d) == inPerCTA(d)
  IN [numReplicates |-> [d1 \in 1..Len(shp) |-> ceil(shp[d1], maxPerCTA(d1 - 1))],
      inNumCTAsEachRep |-> [d1 \in 1..Len(shp) |-> maxPerCTA(d1 - 1) \div inPerCTA(d1 - 1)],
      outNumCTAsEachRep |-> [d1 \in 1..Len(shp) |-> maxPerCTA(d1 - 1) \div outPerCTA(d1 - 1)],
      divides |-> \A d \in 0..(Len(shp) - 1) :
                    /\ maxPerCTA(d) % inPerCTA(d) = 0
                    /\ maxPerCTA(d) % outPerCTA(d) = 0]

\* the replication plan of matchAndRewrite
cvtPlan(sTy, dTy) ==
  LET shp == dTy.shape
      inPerCTA(d) == Min(At(shp, d), shapePerCTA(sTy.layout, d))
      outPerCTA(d) == Min(At(shp, d), shapePerCTA(dTy.layout, d))
      maxPerCTA(d) == Max(inPerCTA(d), outPerCTA(d))
  IN [numReplicates |-> [d1 \in 1..Len(shp) |-> ceil(shp[d1], maxPerCTA(d1 - 1))],
      inNumCTAsEachRep |-> [d1 \in 1..Len(shp) |-> maxPerCTA(d1 - 1) \div inPerCTA(d1 - 1)],
      outNumCTAsEachRep |-> [d1 \in 1..Len(shp) |-> maxPerCTA(d1 - 1) \div outPerCTA(d1 - 1)],
      divides |-> \A d \in 0..(Len(shp) - 1) :
                    /\ maxPerCTA(d) % inPerCTA(d) = 0
                    /\ maxPerCTA(d) % outPerCTA(d) = 0]

\* reorder: result[rank - 1 - order[i]] = input[i]
reorder(input, order) ==
  [p1 \in 1..Len(order) |->
     input[CHOOSE i1 \in 1..Len(order) : order[i1] = Len(order) - p1]]

\* f[1] \o f[2] \o ... \o f[n]
RECURSIVE Concat(_, _)
Concat(f, n) == IF n = 0 THEN <<>> ELSE Concat(f, n - 1) \o f[n]

\* processReplicaBlocked: the vector stores (stNotRd) or loads it emits for one
\* replica, over the tiles of the replica and the vectors of a tile
processReplicaBlocked(stNotRd, ty, numCTAsEachRep, multiDimRepId, vec, conv) ==
  LET l == ty.layout
      accumSizePerThread == product(l.sizePerThread)
      numCTAs == [d1 \in 1..Len(ty.shape) |-> ceil(ty.shape[d1], shapePerCTA(l, d1 - 1))]
      forCta(ctaId) ==
        LET multiDimCTAInRepId == getMultiDimIndex(ctaId, numCTAsEachRep)
            multiDimCTAId == [d1 \in 1..Len(ty.shape) |->
                                multiDimRepId[d1] * numCTAsEachRep[d1] + multiDimCTAInRepId[d1]]
            linearCTAId == getLinearIndex(multiDimCTAId, numCTAs)
        IN [e1 \in 1..ceil(accumSizePerThread, vec) |->
              [op |-> IF stNotRd THEN "store" ELSE "load",
               conv |-> conv,
               cta |-> multiDimCTAInRepId,
               elemId |-> (e1 - 1) * vec,
               first |-> (e1 - 1) * vec + linearCTAId * accumSizePerThread,
               vec |-> vec]]
  IN Concat([c1 \in 1..product(numCTAsEachRep) |-> forCta(c1 - 1)],
            product(numCTAsEachRep))

cvtRoundNoSecondBarrier(sTy, dTy, repId, conv) ==
  LET plan == cvtPlan(sTy, dTy)
      cfg == getScratchConfigForCvtLayout(sTy, dTy)
      multiDimRepId == getMultiDimIndex(repId, plan.numReplicates)
  IN <<[op |-> "barrier", conv |-> conv]>>
     \o processReplicaBlocked(TRUE, sTy, plan.inNumCTAsEachRep, multiDimRepId, cfg.inVec, conv)
     \o processReplicaBlocked(FALSE, dTy, plan.outNumCTAsEachRep, multiDimRepId, cfg.outVec, conv)

\* one iteration of the loop over repId: barrier, the stores of the source
\* side, barrier, the loads of the destination side
cvtRound(sTy, dTy, repId, conv) ==
  LET plan == cvtPlan(sTy, dTy)
      cfg == getScratchConfigForCvtLayout(sTy, dTy)
      multiDimRepId == getMultiDimIndex(repId, plan.numReplicates)
  IN <<[op |-> "barrier", conv |-> conv]>>
     \o processReplicaBlocked(TRUE, sTy, plan.inNumCTAsEachRep, multiDimRepId, cfg.inVec, conv)
     \o <<[op |-> "barrier", conv |-> conv]>>
     \o processReplicaBlocked(FALSE, dTy, plan.outNumCTAsEachRep, multiDimRepId, cfg.outVec, conv)

\* a variant that emits the first round only
cvtStreamFirstRoundOnly(sTy, dTy, conv) == cvtRound(sTy, dTy, 0, conv)

\* the instructions matchAndRewrite emits for conversion number conv of the
\* function
cvtStream(sTy, dTy, conv) ==
  LET accumNumReplicates == product(cvtPlan(sTy, dTy).numReplicates)
  IN Concat([r1 \in 1..accumNumReplicates |-> cvtRound(sTy, dTy, r1 - 1, conv)],
            accumNumReplicates)

\* a variant that leaves the tile of the vector out of its offset
cvtOffsetNoCTA(ty, outOrd, paddedRepShape, ins, threadId) ==
  LET base == emitBaseIndexForBlockedLayout(ty.layout, ty.shape, threadId)
      multiDimElemId == getMultiDimIndex(ins.elemId, ty.layout.sizePerThread)
      multiDimOffset == [d1 \in 1..Len(ty.shape) |-> base[d1] + multiDimElemId[d1]]
  IN linearize(reorder(multiDimOffset, outOrd), reorder(paddedRepShape, outOrd))

\* the element offset into the buffer lane threadId computes for a vector of
\* side ty: linearize(reorder(multiDimOffset, outOrd), reorder(paddedRepShape, outOrd))
cvtOffset(ty, outOrd, paddedRepShape, ins, threadId) ==
  LET base == emitBaseIndexForBlockedLayout(ty.layout, ty.shape, threadId)
      multiDimElemId == getMultiDimIndex(ins.elemId, ty.layout.sizePerThread)
      multiDimOffset == [d1 \in 1..Len(ty.shape) |->
                           base[d1] + ins.cta[d1] * shapePerCTA(ty.layout, d1 - 1)
                           + multiDimElemId[d1]]
  IN linearize(reorder(multiDimOffset, outOrd), reorder(paddedRepShape, outOrd))

\* the coordinate of the tensor element in position slot of lane threadId's
\* record, as processReplicaBlocked addresses the record: slot = elemId +
\* linearCTAId * accumSizePerThread, the tile linearCTAId at multiDimCTAId *
\* shapePerCTA from the lane's base index, the element at multiDimElemId in it
slotCoord(ty, threadId, slot) ==
  LET l == ty.layout
      accumSizePerThread == product(l.sizePerThread)
      numCTAs == [d1 \in 1..Len(ty.shape) |-> ceil(ty.shape[d1], shapePerCTA(l, d1 - 1))]
      multiDimCTAId == getMultiDimIndex(slot \div accumSizePerThread, numCTAs)
      multiDimElemId == getMultiDimIndex(slot % accumSizePerThread, l.sizePerThread)
      base == emitBaseIndexForBlockedLayout(l, ty.shape, threadId)
  IN [d1 \in 1..Len(ty.shape) |->
        base[d1] + multiDimCTAId[d1] * shapePerCTA(l, d1 - 1) + multiDimElemId[d1]]

----------------------------------------------------------------------------
(* The layout conversion: the sub-groups of the cooperative group execute *)
(* the emitted instructions                                               *)

\* at most MaxCvtOps conversions of the function reuse the buffer, one after
\* the other
MaxCvtOps == 2

\* sizePerThread of the conversion sub-model has at most 2^MaxLogCvtTile elements
MaxLogCvtTile == 1

\* the rank-2 tensors of the conversion sub-model
CvtShapes2 == {<<8, 8>>, <<16, 8>>, <<8, 16>>}

CvtThreadsPerWarp2 == {<<4, 8>>, <<8, 4>>}

CvtLayouts(r, nw) ==
  {l \in BlockedLayouts(r, nw) :
     /\ product(l.sizePerThread) <= Pow2(MaxLogCvtTile)
     /\ r = 2 => l.threadsPerWarp \in CvtThreadsPerWarp2}

\* source and destination type of a conversion: the same shape, two layouts of
\* one module (the same number of warps), at least one of them not Blocked in
\* the last three sets
CvtTypePairs ==
  LET both(shapes, r, nw) ==
        {<<[shape |-> shp, layout |-> ls], [shape |-> shp, layout |-> ld]>> :
           shp \in shapes, ls \in CvtLayouts(r, nw), ld \in CvtLayouts(r, nw)}
      one(shapes, r, nw) ==
        {<<[shape |-> shp, layout |-> NonBlocked], [shape |-> shp, layout |-> ld]>> :
           shp \in shapes, ld \in CvtLayouts(r, nw)}
        \cup {<<[shape |-> shp, layout |-> ls], [shape |-> shp, layout |-> NonBlocked]>> :
                shp \in shapes, ls \in CvtLayouts(r, nw)}
        \cup {<<[shape |-> shp, layout |-> NonBlocked], [shape |-> shp, layout |-> NonBlocked]>> :
                shp \in shapes}
  IN both(Shapes(1), 1, 1) \cup both(Shapes(1), 1, 2) \cup both(CvtShapes2, 2, 1)
     \cup one(CvtShapes2, 2, 1)

\* what a cell of the buffer holds before any store
Undef == <<-1>>

Warps(l) == 0..(numWarpsOf(l) - 1)

LanesOfWarp(w) == (w * warpSize)..(w * warpSize + warpSize - 1)

CvtInit ==
  /\ assertsEnabled \in BOOLEAN
  /\ \E pair \in CvtTypePairs :
       /\ srcTy = pair[1]
       /\ dstTy = pair[2]
  /\ RtIdle
  /\ idx = NoIdx
  /\ rec = NoRec
  /\ mem = NoMem
  /\ bc = NoBc
  /\ \E n \in 1..MaxCvtOps : cvt = [status |-> "none", ops |-> n]
  /\ drv = NoDrv
  /\ ssa = NoSsa

\* matchAndRewrite of every conversion of the function, both layouts Blocked:
\* the instructions are emitted; no lane has run, no slot of a result record
\* holds a value
ConvertLayoutLower ==
  /\ cvt.status = "none"
  /\ isBlocked(srcTy.layout) /\ isBlocked(dstTy.layout)
  /\ assertsEnabled => cvtPlan(srcTy, dstTy).divides
  /\ \E prog \in {Concat([c \in 1..cvt.ops |-> cvtStream(srcTy, dstTy, c)], cvt.ops)} :
       cvt' = [status |-> "emitted", ops |-> cvt.ops, prog |-> prog,
               pc |-> [w \in Warps(dstTy.layout) |-> 0],
               smem |-> << >>,
               out |-> [t \in Lanes(dstTy.layout) |->
                          [n1 \in 1..(cvt.ops * getElemsPerThread(dstTy.layout, dstTy.shape)) |-> {}]]]
  /\ UNCHANGED <<cfgVars, ssa, rtVars, idx, rec, mem, bc, drv>>

\* matchAndRewrite with assertions compiled in ends the process: with a layout
\* that is not Blocked at assert(0 && "... not implemented"), with a plan
\* whose tiles do not divide at the assertion of the plan
ConvertLayoutAbort ==
  /\ cvt.status = "none"
  /\ assertsEnabled
  /\ IF isBlocked(srcTy.layout) /\ isBlocked(dstTy.layout)
     THEN ~cvtPlan(srcTy, dstTy).divides
     ELSE TRUE
  /\ cvt' = [status |-> "abort", ops |-> cvt.ops, prog |-> <<>>]
  /\ UNCHANGED <<cfgVars, ssa, rtVars, idx, rec, mem, bc, drv>>

\* matchAndRewrite with a layout that is not Blocked, no assertions: the
\* pattern returns failure() and has emitted nothing
ConvertLayoutFailure ==
  /\ cvt.status = "none"
  /\ ~(isBlocked(srcTy.layout) /\ isBlocked(dstTy.layout))
  /\ ~assertsEnabled
  /\ cvt' = [status |-> "failure", ops |-> cvt.ops, prog |-> <<>>]
  /\ UNCHANGED <<cfgVars, ssa, rtVars, idx, rec, mem, bc, drv>>

CvtWarps == IF cvt.status = "emitted" THEN DOMAIN cvt.pc ELSE {}

\* the instruction sub-group w executes next
NextInstr(w) == cvt.prog[cvt.pc[w] + 1]

Running(w) == cvt.status = "emitted" /\ cvt.pc[w] < Len(cvt.prog)

CvtDone == cvt.status = "emitted" /\ \A w \in DOMAIN cvt.pc : cvt.pc[w] = Len(cvt.prog)

\* gpu.barrier: a sub-group leaves the barrier once every sub-group of the
\* cooperative group has arrived at it
WarpBarrier(w) ==
  /\ Running(w)
  /\ NextInstr(w).op = "barrier"
  /\ \A w2 \in DOMAIN cvt.pc : cvt.pc[w2] >= cvt.pc[w]
  /\ cvt' = [cvt EXCEPT !.pc[w] = @ + 1]
  /\ UNCHANGED <<cfgVars, ssa, rtVars, idx, rec, mem, bc, drv>>

\* a vector store: every lane of the sub-group writes slots first .. first+vec-1
\* of its source record to the cells from its offset on. A slot holds the
\* tensor element of its coordinate, which stands for the value; a cell
\* written by several lanes holds one of their values
WarpStore(w) ==
  /\ Running(w)
  /\ NextInstr(w).op = "store"
  /\ \E ins \in {NextInstr(w)}, cfg \in {getScratchConfigForCvtLayout(srcTy, dstTy)} :
       \E writes \in {{<<cvtOffset(srcTy, dstTy.layout.order, cfg.paddedRepShape, ins, t) + v,
                         t, ins.first + v>> : t \in LanesOfWarp(w), v \in 0..(ins.vec - 1)}} :
         cvt' = [cvt EXCEPT
                   !.pc[w] = @ + 1,
                   !.smem = [a \in DOMAIN cvt.smem \cup {x[1] : x \in writes} |->
                               IF \E x \in writes : x[1] = a
                               THEN {slotCoord(srcTy, x[2], x[3]) : x \in {y \in writes : y[1] = a}}
                               ELSE cvt.smem[a]]]
  /\ UNCHANGED <<cfgVars, ssa, rtVars, idx, rec, mem, bc, drv>>

\* a vector load: every lane of the sub-group reads vec cells from its offset
\* on into slots first .. first+vec-1 of its result record
WarpLoad(w) ==
  /\ Running(w)
  /\ NextInstr(w).op = "load"
  /\ \E ins \in {NextInstr(w)}, cfg \in {getScratchConfigForCvtLayout(srcTy, dstTy)},
        outElems \in {getElemsPerThread(dstTy.layout, dstTy.shape)} :
       \E reads \in {[t \in LanesOfWarp(w) |->
                        cvtOffset(dstTy, dstTy.layout.order, cfg.paddedRepShape, ins, t)]} :
         cvt' = [cvt EXCEPT
                   !.pc[w] = @ + 1,
                   !.out = [t \in DOMAIN cvt.out |->
                              IF t \in LanesOfWarp(w)
                              THEN [n1 \in DOMAIN cvt.out[t] |->
                                      LET v == n1 - 1 - (ins.conv - 1) * outElems - ins.first
                                      IN IF v >= 0 /\ v < ins.vec
                                         THEN IF reads[t] + v \in DOMAIN cvt.smem
                                              THEN cvt.smem[reads[t] + v]
                                              ELSE {Undef}
                                         ELSE cvt.out[t][n1]]
                              ELSE cvt.out[t]]]
  /\ UNCHANGED <<cfgVars, ssa, rtVars, idx, rec, mem, bc, drv>>

\* the enumeration of the destination type, which the result records are
\* compared with, is taken once every sub-group has run to the end
CvtEmitIndicesDst ==
  /\ CvtDone
  /\ EmitIndices("dst")

CvtEmitIndicesDstAbort ==
  /\ CvtDone
  /\ EmitIndicesAbort("dst")

CvtWarpBarrier == \E w \in CvtWarps : WarpBarrier(w)

CvtWarpStore == \E w \in CvtWarps : WarpStore(w)

CvtWarpLoad == \E w \in CvtWarps : WarpLoad(w)

CvtNext ==
  \/ ConvertLayoutLower
  \/ ConvertLayoutAbort
  \/ ConvertLayoutFailure
  \/ CvtWarpBarrier
  \/ CvtWarpStore
  \/ CvtWarpLoad
  \/ CvtEmitIndicesDst
  \/ CvtEmitIndicesDstAbort

SpecCvt == CvtInit /\ [][CvtNext]_vars

\* the bag of the first n entries of a sequence
RECURSIVE BagOfSeq(_, _)
BagOfSeq(f, n) == IF n = 0 THEN EmptyBag ELSE BagOfSeq(f, n - 1) (+) SetToBag({f[n]})

\* the values of the source records of all lanes, one after the other
SrcValues ==
  LET e == getElemsPerThread(srcTy.layout, srcTy.shape)
  IN [k \in 1..(Cardinality(Lanes(srcTy.layout)) * e) |->
        {slotCoord(srcTy, (k - 1) \div e, (k - 1) % e)}]

\* what the result records of the first conversion hold, one after the other
DstValues ==
  LET e == getElemsPerThread(dstTy.layout, dstTy.shape)
  IN [k \in 1..(Cardinality(Lanes(dstTy.layout)) * e) |->
        cvt.out[(k - 1) \div e][((k - 1) % e) + 1]]

\* the values of the source records and of the result records agree as
\* multisets, and every result slot holds a value
SameMultiset ==
  \E sv \in {SrcValues}, dv \in {DstValues} :
    /\ \A k \in 1..Len(dv) : Cardinality(dv[k]) = 1 /\ dv[k] # {Undef}
    /\ BagOfSeq(sv, Len(sv)) = BagOfSeq(dv, Len(dv))

\* C2 as stated: after all replication rounds of a conversion between two
\* Blocked layouts over the same shape, the multiset of the values of all
\* lanes' destination records equals the multiset of the values of all lanes'
\* source records.
C2_MultisetPreserved == CvtDone => SameMultiset

\* C2 as amended: the same, for two Blocked layouts that both fully tile the
\* shape.
C2_MultisetPreservedFullTiling ==
  (CvtDone /\ FullyTiles(srcTy.layout, srcTy.shape) /\ FullyTiles(dstTy.layout, dstTy.shape)) =>
    SameMultiset

\* a conversion between two different Blocked layouts that both fully tile the
\* shape has run all its rounds, the source records holding more than one tile
\* of the layout
C2_Witness ==
  /\ CvtDone
  /\ FullyTiles(srcTy.layout, srcTy.shape)
  /\ FullyTiles(dstTy.layout, dstTy.shape)
  /\ srcTy.layout # dstTy.layout
  /\ getElemsPerThread(srcTy.layout, srcTy.shape) > product(srcTy.layout.sizePerThread)

\* C3: a store and a load of the staging buffer are separated by a barrier of
\* the whole cooperative group: once a sub-group has executed a load, every
\* sub-group has executed all the stores emitted before it, and once a
\* sub-group has executed a store, every sub-group has executed all the loads
\* emitted before it (the loads of the round before, or of the conversion
\* before).
C3_BarrierSeparation ==
  cvt.status = "emitted" =>
    \A w, w2 \in DOMAIN cvt.pc :
      \A j \in (cvt.pc[w2] + 2)..cvt.pc[w] :
        \A i \in (cvt.pc[w2] + 1)..(j - 1) :
          {cvt.prog[i].op, cvt.prog[j].op} # {"store", "load"}

\* one sub-group has executed a store of the second conversion, emitted after
\* loads of the first, while the other sub-group has not yet executed it
C3_Witness ==
  /\ cvt.status = "emitted"
  /\ \E w, w2 \in DOMAIN cvt.pc :
       /\ cvt.pc[w] > cvt.pc[w2]
       /\ cvt.pc[w] > 0
       /\ cvt.prog[cvt.pc[w]].op = "store"
       /\ cvt.prog[cvt.pc[w]].conv = 2
       /\ \E i \in 1..cvt.pc[w] : cvt.prog[i].op = "load"

\* the number of loads of the first conversion that assign position n of the
\* result record
AssignmentsOf(n) ==
  Cardinality({i \in 1..Len(cvt.prog) :
                 /\ cvt.prog[i].op = "load"
                 /\ cvt.prog[i].conv = 1
                 /\ n >= cvt.prog[i].first
                 /\ n < cvt.prog[i].first + cvt.prog[i].vec})

\* C4: after the last round of a conversion between two Blocked layouts every
\* position n of a lane's result record has been assigned exactly once and
\* holds the tensor element at the coordinate the enumeration of the
\* destination type assigns to (lane, n).
C4_DestinationRecord ==
  (CvtDone /\ idx["dst"].status # "none") =>
    /\ idx["dst"].status = "done"
    /\ \A t \in Lanes(dstTy.layout), n \in 0..(Len(idx["dst"].offsets) - 1) :
         InShape(IndexOf("dst", t, n), dstTy.shape) =>
           /\ AssignmentsOf(n) = 1
           /\ cvt.out[t][n + 1] = {IndexOf("dst", t, n)}

----------------------------------------------------------------------------
(* The driver: runOnOperation of the pass over one module *)

\* the module holds at most MaxFuncs functions
MaxFuncs == 2

\* the function bodies hold at most MaxBodyOps operations
MaxBodyOps == 2

\* the operations of a function body the driver meets: the name of the
\* operation and whether its value is a ranked tensor with Blocked layouts
OpKinds ==
  {[name |-> "tt.splat", dialect |-> "triton", tensor |-> TRUE, blocked |-> TRUE],
   [name |-> "tt.store", dialect |-> "triton", tensor |-> FALSE, blocked |-> TRUE],
   [name |-> "tt.dot", dialect |-> "triton", tensor |-> TRUE, blocked |-> TRUE],
   [name |-> "triton_gpu.convert_layout", dialect |-> "triton_gpu", tensor |-> TRUE, blocked |-> TRUE],
   [name |-> "triton_gpu.convert_layout", dialect |-> "triton_gpu", tensor |-> TRUE, blocked |-> FALSE],
   [name |-> "gpu.thread_id", dialect |-> "gpu", tensor |-> FALSE, blocked |-> TRUE],
   [name |-> "gpu.launch_func", dialect |-> "gpu", tensor |-> FALSE, blocked |-> TRUE]}

\* the dialects of the source tensor program
SourceDialects == {"triton", "triton_gpu", "gpu"}

\* legality of an operation under the target of phase 1: the LLVM dialect is
\* legal, FuncOp is illegal, everything else is neither
TritonLLVMFunctionConversionTarget(name, dialect) ==
  IF dialect = "llvm" THEN "legal"
  ELSE IF name = "func" THEN "illegal"
  ELSE "unknown"

\* legality of an operation under the target of phase 3: the LLVM and NVVM
\* dialects are legal, the gpu dialect is illegal; the triton and triton_gpu
\* dialects are not declared illegal
TritonLLVMConversionTarget(name, dialect) ==
  IF dialect \in {"llvm", "nvvm"} THEN "legal"
  ELSE IF dialect = "gpu" THEN "illegal"
  ELSE "unknown"

\* what the patterns of phase 3 do with an operation: "converted", "failure"
\* (the pattern returned failure() or no pattern matches the operation) or
\* "abort" (an assertion ended the process)
populateTritonToLLVMPatterns(op, asserts) ==
  CASE op.name = "tt.splat" -> "converted"
    [] op.name = "tt.store" -> IF op.tensor THEN "converted" ELSE "failure"
    [] op.name = "triton_gpu.convert_layout" ->
         IF op.blocked THEN "converted"
         ELSE IF asserts THEN "abort" ELSE "failure"
    [] op.name = "gpu.thread_id" -> "converted"
    [] OTHER -> "failure"

\* no base address
NullValue == 0

\* the base address initSharedMemory produces when funcs[0] is read from an
\* empty vector and the process survives it
GarbageFunc == 99

Bodies == UNION {SeqsOf(OpKinds, n) : n \in 0..MaxBodyOps}

\* the total shared-memory sizes the allocation analysis reports, in bytes
AllocSizes == {0, 64}

DrvInit ==
  /\ assertsEnabled \in BOOLEAN
  /\ srcTy = NoTy /\ dstTy = NoTy
  /\ RtIdle
  /\ idx = NoIdx
  /\ rec = NoRec
  /\ mem = NoMem
  /\ bc = NoBc
  /\ cvt = NoCvt
  /\ ssa = NoSsa
  /\ \E nf \in 0..MaxFuncs :
       \E sig \in [1..nf -> BOOLEAN] :
         \E b \in (IF nf = 0 THEN {<< >>} ELSE Bodies), sz \in AllocSizes :
           drv = [pc |-> "start",
                  allocSize |-> sz,
                  globals |-> << >>,
                  addressOfs |-> << >>,
                  funcs |-> [f \in 1..nf |-> [name |-> "func", dialect |-> "builtin", sigOk |-> sig[f]]],
                  ops |-> [k \in 1..Len(b) |-> [kind |-> b[k], state |-> "src"]],
                  i |-> 0,
                  log |-> << >>,
                  phase1 |-> "none",
                  global |-> FALSE,
                  smem |-> NullValue,
                  patternSmem |-> NullValue,
                  signalled |-> FALSE]

\* FuncOpConversion: the function becomes an LLVM function
FuncOpConversion(f) == [name |-> "llvm.func", dialect |-> "llvm", sigOk |-> f.sigOk]

\* phase 1 converts every function whose legalization is required and
\* possible; it fails when an illegal function cannot be converted
phase1Succeeds(funcs) ==
  \A f \in DOMAIN funcs :
    TritonLLVMFunctionConversionTarget(funcs[f].name, funcs[f].dialect) = "illegal" =>
      funcs[f].sigOk

\* a variant of the driver that goes on to phase 2 after a failure of phase 1
RunPhase1ContinuesOnFailure ==
  /\ drv.pc = "start"
  /\ drv' = IF phase1Succeeds(drv.funcs)
            THEN [drv EXCEPT !.pc = "phase2", !.log = Append(@, "phase1"),
                             !.phase1 = "ok",
                             !.funcs = [f \in DOMAIN drv.funcs |-> FuncOpConversion(drv.funcs[f])]]
            ELSE [drv EXCEPT !.pc = "phase2", !.log = Append(@, "phase1"),
                             !.phase1 = "failed"]
  /\ UNCHANGED <<cfgVars, ssa, rtVars, idx, rec, mem, bc, cvt>>

\* step 1 of runOnOperation: applyPartialConversion with the function target;
\* on failure the rewrites are discarded and the pass returns
\* signalPassFailure()
RunPhase1 ==
  /\ drv.pc = "start"
  /\ drv' = IF phase1Succeeds(drv.funcs)
            THEN [drv EXCEPT !.pc = "phase2", !.log = Append(@, "phase1"),
                             !.phase1 = "ok",
                             !.funcs = [f \in DOMAIN drv.funcs |-> FuncOpConversion(drv.funcs[f])]]
            ELSE [drv EXCEPT !.pc = "done", !.log = Append(@, "phase1"),
                             !.phase1 = "failed", !.signalled = TRUE]
  /\ UNCHANGED <<cfgVars, ssa, rtVars, idx, rec, mem, bc, cvt>>

\* the LLVM functions mod.walk collects
llvmFuncs(funcs) == {f \in DOMAIN funcs : funcs[f].name = "llvm.func"}

\* step 2, initSharedMemory returns: the global is created, the address is
\* taken at the start of funcs[0]. Without assertions a module of several
\* functions gets the address in the first one, and reading funcs[0] of an
\* empty vector is undefined: where the process survives it the address is
\* created at an arbitrary place
InitSharedMemory ==
  /\ drv.pc = "phase2"
  /\ \E n \in {Cardinality(llvmFuncs(drv.funcs))} :
       /\ n # 1 => ~assertsEnabled
       /\ drv' = [drv EXCEPT !.pc = "phase3", !.log = Append(@, "phase2"),
                             !.global = TRUE,
                             !.globals = Append(@, [name |-> "global_smem", linkage |-> "internal",
                                                    size |-> drv.allocSize]),
                             !.addressOfs = Append(@, [func |-> IF n = 0 THEN GarbageFunc ELSE 1,
                                                       at |-> "start of entry block"]),
                             !.smem = IF n = 0 THEN GarbageFunc ELSE 1]
  /\ UNCHANGED <<cfgVars, ssa, rtVars, idx, rec, mem, bc, cvt>>

\* step 2, initSharedMemory ends the process after it created the global:
\* assert(funcs.size() == 1) with assertions, the undefined read of funcs[0]
\* of an empty vector without
InitSharedMemoryAbort ==
  /\ drv.pc = "phase2"
  /\ \E n \in {Cardinality(llvmFuncs(drv.funcs))} :
       \/ n # 1 /\ assertsEnabled
       \/ n = 0 /\ ~assertsEnabled
  /\ drv' = [drv EXCEPT !.pc = "aborted", !.log = Append(@, "phase2"),
                        !.global = TRUE,
                        !.globals = Append(@, [name |-> "global_smem", linkage |-> "internal",
                                               size |-> drv.allocSize])]
  /\ UNCHANGED <<cfgVars, ssa, rtVars, idx, rec, mem, bc, cvt>>

\* step 3 begins: the patterns are populated, each holding a copy of smem_
StartPhase3 ==
  /\ drv.pc = "phase3"
  /\ drv' = [drv EXCEPT !.pc = "converting", !.log = Append(@, "phase3"),
                        !.patternSmem = drv.smem]
  /\ UNCHANGED <<cfgVars, ssa, rtVars, idx, rec, mem, bc, cvt>>

\* the operation applyPartialConversion legalizes next
NextOp == drv.ops[drv.i + 1].kind

Converting == drv.pc = "converting" /\ drv.i < Len(drv.ops)

\* step 3 legalizes one operation: a pattern converts it, or no pattern does
\* and the operation, not being illegal, is left as it is
ConvertOp ==
  /\ Converting
  /\ \E r \in {populateTritonToLLVMPatterns(NextOp, assertsEnabled)} :
       \/ /\ r = "converted"
          /\ drv' = [drv EXCEPT !.i = @ + 1, !.ops[drv.i + 1].state = "llvm"]
       \/ /\ r = "failure"
          /\ TritonLLVMConversionTarget(NextOp.name, NextOp.dialect) # "illegal"
          /\ drv' = [drv EXCEPT !.i = @ + 1]
  /\ UNCHANGED <<cfgVars, ssa, rtVars, idx, rec, mem, bc, cvt>>

\* step 3 fails to legalize an illegal operation: applyPartialConversion
\* discards its rewrites and the pass returns signalPassFailure()
ConvertOpFails ==
  /\ Converting
  /\ populateTritonToLLVMPatterns(NextOp, assertsEnabled) = "failure"
  /\ TritonLLVMConversionTarget(NextOp.name, NextOp.dialect) = "illegal"
  /\ drv' = [drv EXCEPT !.i = @ + 1, !.pc = "done", !.signalled = TRUE,
                        !.ops = [k \in DOMAIN drv.ops |-> [drv.ops[k] EXCEPT !.state = "src"]]]
  /\ UNCHANGED <<cfgVars, ssa, rtVars, idx, rec, mem, bc, cvt>>

\* a pattern of step 3 runs into an assertion: the process ends
ConvertOpAbort ==
  /\ Converting
  /\ populateTritonToLLVMPatterns(NextOp, assertsEnabled) = "abort"
  /\ drv' = [drv EXCEPT !.i = @ + 1, !.pc = "aborted"]
  /\ UNCHANGED <<cfgVars, ssa, rtVars, idx, rec, mem, bc, cvt>>

\* applyPartialConversion of step 3 succeeded: runOnOperation returns
FinishPhase3 ==
  /\ drv.pc = "converting"
  /\ drv.i = Len(drv.ops)
  /\ drv' = [drv EXCEPT !.pc = "done"]
  /\ UNCHANGED <<cfgVars, ssa, rtVars, idx, rec, mem, bc, cvt>>

DrvNext ==
  \/ RunPhase1
  \/ InitSharedMemory
  \/ InitSharedMemoryAbort
  \/ StartPhase3
  \/ ConvertOp
  \/ ConvertOpFails
  \/ ConvertOpAbort
  \/ FinishPhase3

SpecDrv == DrvInit /\ [][DrvNext]_vars

\* the operations of the source tensor program the run has left in the module
Unconverted ==
  {k \in DOMAIN drv.ops :
     drv.ops[k].state = "src" /\ drv.ops[k].kind.dialect \in SourceDialects}

\* C8: a layout conversion with a layout that is not Blocked, once phase 3 has
\* met it, has emitted nothing and has raised a fatal failure: the process
\* has ended, or the run does not end without a signalled failure.
C8_NonBlockedFatal ==
  \A k \in 1..drv.i :
    (drv.ops[k].kind.name = "triton_gpu.convert_layout" /\ ~drv.ops[k].kind.blocked) =>
      /\ drv.ops[k].state = "src"
      /\ drv.pc = "done" => drv.signalled

\* C9: whenever an operation of the source tensor program is left unconverted
\* after phase 3, the pass has signalled failure.
C9_UnconvertedFails ==
  (drv.pc = "done" /\ Len(drv.log) = 3 /\ Unconverted # {}) => drv.signalled

\* C10: the phases run in the order function conversion, buffer
\* materialization, operation conversion; the buffer is materialized only
\* after phase 1 succeeded; phase 3 starts with a base address and the
\* patterns' base address stays the one phase 2 produced; a failure of phase 1
\* ends the run with a signalled failure, phases 2 and 3 not executed.
C10_PhaseOrder ==
  /\ drv.log = SubSeq(<<"phase1", "phase2", "phase3">>, 1, Len(drv.log))
  /\ drv.global => (drv.phase1 = "ok" /\ \A f \in DOMAIN drv.funcs : drv.funcs[f].name = "llvm.func")
  /\ Len(drv.log) = 3 => (drv.smem # NullValue /\ drv.patternSmem = drv.smem)
  /\ drv.phase1 = "failed" =>
       /\ drv.pc = "done" /\ drv.signalled
       /\ drv.log = <<"phase1">>
       /\ ~drv.global /\ drv.smem = NullValue
       /\ drv.i = 0 /\ \A k \in DOMAIN drv.ops : drv.ops[k].state = "src"

\* a run went through the three phases, converted an operation and returned
\* without failure
C10_Witness ==
  /\ drv.pc = "done"
  /\ drv.log = <<"phase1", "phase2", "phase3">>
  /\ ~drv.signalled
  /\ drv.smem = 1 /\ drv.patternSmem = 1
  /\ \E k \in DOMAIN drv.ops : drv.ops[k].state = "llvm"

\* C11: once phase 2 has run, the module holds exactly one staging buffer, an
\* internal byte array of the size the allocation analysis reports; a module
\* whose number of converted functions is not 1 has ended in a fatal failure,
\* and otherwise the base address has been taken exactly once, at the start
\* of the entry block of the one converted function.
C11_OneStagingBuffer ==
  Len(drv.log) >= 2 =>
    /\ drv.globals = <<[name |-> "global_smem", linkage |-> "internal", size |-> drv.allocSize]>>
    /\ IF Cardinality(llvmFuncs(drv.funcs)) = 1
       THEN /\ drv.addressOfs = <<[func |-> 1, at |-> "start of entry block"]>>
            /\ drv.smem = 1
       ELSE /\ drv.pc = "aborted"
            /\ drv.addressOfs = << >>

----------------------------------------------------------------------------
(* The layout conversion under a fair scheduler *)

\* the sub-groups of the largest cooperative group
AllWarps == UNION {0..(nw - 1) : nw \in NumWarpsChoices}

\* sub-group w executes its next instruction
WarpStep(w) ==
  /\ w \in CvtWarps
  /\ (WarpBarrier(w) \/ WarpStore(w) \/ WarpLoad(w))

\* the conversions between two Blocked layouts over a shape of rank 1
CvtLiveInit == CvtInit /\ isBlocked(srcTy.layout) /\ isBlocked(dstTy.layout) /\ Len(srcTy.shape) = 1

CvtLiveWarpStep == \E w \in AllWarps : WarpStep(w)

CvtLiveNext ==
  \/ ConvertLayoutLower
  \/ CvtLiveWarpStep

\* the hardware schedules every sub-group that can run
SpecCvtLive ==
  CvtLiveInit /\ [][CvtLiveNext]_vars /\ \A w \in AllWarps : WF_vars(WarpStep(w))

\* the barriers among the emitted instructions of conversion number conv
BarriersOf(conv) ==
  {i \in 1..Len(cvt.prog) : cvt.prog[i].op = "barrier" /\ cvt.prog[i].conv = conv}

\* the accesses of conversion conv between its barrier number b and the next,
\* b counted from 1
RECURSIVE NthOf(_, _)
NthOf(S, n) ==
  LET m == CHOOSE x \in S : \A y \in S : x <= y
  IN IF n = 1 THEN m ELSE NthOf(S \ {m}, n - 1)

\* C12: the instructions every lane executes hold exactly
\* 2 * product(numReplicates) barriers for each conversion, alternately one
\* followed by stores and one followed by loads, and every sub-group
\* eventually completes the conversion: none waits forever at a barrier.
C12_BarriersUnconditional ==
  /\ [](cvt.status = "emitted" =>
          \A conv \in 1..cvt.ops :
            \E B \in {BarriersOf(conv)} :
              /\ Cardinality(B) = 2 * product(cvtPlan(srcTy, dstTy).numReplicates)
              /\ \A b \in 1..Cardinality(B) :
                   cvt.prog[NthOf(B, b) + 1].op = (IF b % 2 = 1 THEN "store" ELSE "load"))
  /\ (cvt.status = "emitted" ~> CvtDone)

\* a conversion of more than one round has been completed by a cooperative
\* group of two sub-groups
C12_Witness ==
  /\ CvtDone
  /\ Cardinality(DOMAIN cvt.pc) = 2
  /\ product(cvtPlan(srcTy, dstTy).numReplicates) > 1

----------------------------------------------------------------------------
(* The per-lane records: LLVM struct values assembled from and taken apart *)
(* into scalars                                                            *)

\* a record assembled from scalars has at most MaxRecLen slots
MaxRecLen == 3

\* the scalars of the records
Scalars == {"a", "b", "c"}

\* llvm.mlir.undef of a struct type of n fields
UndefOp(n) == [i1 \in 1..n |-> "undef"]

\* llvm.insertvalue: the struct with field position replaced
InsertValueOp(st, v, position) == [st EXCEPT ![position + 1] = v]

\* llvm.extractvalue: the field at position
ExtractValueOp(st, position) == st[position + 1]

\* a variant that inserts every value at the position after its own, the
\* last one at position 0
RECURSIVE getStructFromElementsShifted(_, _, _)
getStructFromElementsShifted(resultVals, n, structType) ==
  IF n = 0 THEN UndefOp(structType)
  ELSE InsertValueOp(getStructFromElementsShifted(resultVals, n - 1, structType),
                     resultVals[n], n % structType)

\* getStructFromElements after the first n values of resultVals: undef, then
\* one insertvalue per value at the value's own position
RECURSIVE getStructFromElements(_, _, _)
getStructFromElements(resultVals, n, structType) ==
  IF n = 0 THEN UndefOp(structType)
  ELSE InsertValueOp(getStructFromElements(resultVals, n - 1, structType),
                     resultVals[n], n - 1)

\* getElementsFromStruct: results[i] = extractvalue(llvmStruct, i), i < elems
getElementsFromStruct(llvmStruct, elems) ==
  [i1 \in 1..elems |-> ExtractValueOp(llvmStruct, i1 - 1)]

\* a variant sized by the number of elements of one sizePerThread tile
convertSplatLikeOpOneTile(ty, constVal) ==
  LET numElemsPerThread == product(ty.layout.sizePerThread)
      elems == [i1 \in 1..numElemsPerThread |-> constVal]
  IN getStructFromElements(elems, numElemsPerThread, numElemsPerThread)

\* convertSplatLikeOp: numElemsPerThread copies of the scalar, assembled into
\* a struct of as many fields
convertSplatLikeOp(ty, constVal) ==
  LET numElemsPerThread == getElemsPerThread(ty.layout, ty.shape)
      elems == [i1 \in 1..numElemsPerThread |-> constVal]
  IN getStructFromElements(elems, numElemsPerThread, numElemsPerThread)

\* the element types of a splat constant: integer, float, or neither
ElemKinds == {"int", "float", "other"}

\* a splat record has at most 2^MaxLogSplatElems slots
MaxLogSplatElems == 4

\* the result types of the splats: rank 1 with every number of sub-groups,
\* rank 2 with one
SplatTypes ==
  {ty \in {[shape |-> shp, layout |-> l] :
             shp \in Shapes(1), l \in UNION {BlockedLayouts(1, nw) : nw \in NumWarpsChoices}}
           \cup {[shape |-> shp, layout |-> l] : shp \in Shapes(2), l \in CvtLayouts(2, 1)} :
     getElemsPerThread(ty.layout, ty.shape) <= Pow2(MaxLogSplatElems)}

RecInit ==
  /\ assertsEnabled \in BOOLEAN
  /\ srcTy = NoTy
  /\ RtIdle
  /\ idx = NoIdx
  /\ LowIdle
  /\ \/ /\ dstTy = NoTy
        /\ \E n \in 0..MaxRecLen : \E s \in SeqsOf(Scalars, n) :
             rec = [status |-> "none", kind |-> "record", elems |-> s]
     \/ /\ dstTy \in SplatTypes
        /\ \E v \in Scalars :
             \/ rec = [status |-> "none", kind |-> "tt.splat", v |-> v, elemKind |-> "int"]
             \/ \E e \in ElemKinds :
                  rec = [status |-> "none", kind |-> "arith.constant", v |-> v, elemKind |-> e]

\* a pattern assembles its result record from the scalars it computed
Assemble ==
  /\ rec.status = "none" /\ rec.kind = "record"
  /\ rec' = [status |-> "assembled", kind |-> "record", elems |-> rec.elems,
             struct |-> getStructFromElements(rec.elems, Len(rec.elems), Len(rec.elems))]
  /\ UNCHANGED <<cfgVars, ssa, rtVars, idx, lowVars>>

\* a pattern takes its operand record apart
Extract ==
  /\ rec.status = "assembled"
  /\ rec' = [status |-> "extracted", kind |-> "record", elems |-> rec.elems,
             struct |-> rec.struct,
             out |-> getElementsFromStruct(rec.struct, Len(rec.elems))]
  /\ UNCHANGED <<cfgVars, ssa, rtVars, idx, lowVars>>

\* the scalars taken out of a record are assembled again
Reassemble ==
  /\ rec.status = "extracted"
  /\ rec' = [status |-> "reassembled", kind |-> "record", elems |-> rec.elems,
             struct |-> rec.struct, out |-> rec.out,
             back |-> getStructFromElements(rec.out, Len(rec.out), Len(rec.out))]
  /\ UNCHANGED <<cfgVars, ssa, rtVars, idx, lowVars>>

\* SplatOpConversion::matchAndRewrite
SplatLower ==
  /\ rec.status = "none" /\ rec.kind = "tt.splat"
  /\ rec' = [status |-> "splat", kind |-> rec.kind, v |-> rec.v, elemKind |-> rec.elemKind,
             struct |-> convertSplatLikeOp(dstTy, rec.v)]
  /\ UNCHANGED <<cfgVars, ssa, rtVars, idx, lowVars>>

\* ArithConstantSplatOpConversion::matchAndRewrite of a splat constant of
\* integer or float elements
ConstantSplatLower ==
  /\ rec.status = "none" /\ rec.kind = "arith.constant"
  /\ rec.elemKind \in {"int", "float"}
  /\ rec' = [status |-> "splat", kind |-> rec.kind, v |-> rec.v, elemKind |-> rec.elemKind,
             struct |-> convertSplatLikeOp(dstTy, rec.v)]
  /\ UNCHANGED <<cfgVars, ssa, rtVars, idx, lowVars>>

\* ArithConstantSplatOpConversion::matchAndRewrite of a splat constant whose
\* elements are neither integer nor float: return failure()
ConstantSplatFailure ==
  /\ rec.status = "none" /\ rec.kind = "arith.constant"
  /\ rec.elemKind = "other"
  /\ rec' = [rec EXCEPT !.status = "failure"]
  /\ UNCHANGED <<cfgVars, ssa, rtVars, idx, lowVars>>

RecNext ==
  \/ Assemble
  \/ Extract
  \/ Reassemble
  \/ SplatLower
  \/ ConstantSplatLower
  \/ ConstantSplatFailure

SpecRec == RecInit /\ [][RecNext]_vars

\* C13: the record a splat lowering produces has exactly
\* elemsPerThread(layout, shape) slots and every slot is the splatted scalar.
C13_SplatRecord ==
  rec.status = "splat" =>
    /\ Len(rec.struct) = getElemsPerThread(dstTy.layout, dstTy.shape)
    /\ \A i1 \in 1..getElemsPerThread(dstTy.layout, dstTy.shape) :
         ExtractValueOp(rec.struct, i1 - 1) = rec.v

\* a splat constant has been lowered to a record of several tiles
C13_Witness ==
  /\ rec.status = "splat"
  /\ rec.kind = "arith.constant"
  /\ getElemsPerThread(dstTy.layout, dstTy.shape) > product(dstTy.layout.sizePerThread)
  /\ product(dstTy.layout.sizePerThread) > 1

\* C14: what is extracted from the record assembled from a scalar sequence s
\* over |s| slots is s, position by position, and assembling what was
\* extracted gives the same record.
C14_AssembleExtractInverse ==
  /\ rec.status \in {"extracted", "reassembled"} =>
       /\ Len(rec.out) = Len(rec.elems)
       /\ \A i1 \in 1..Len(rec.elems) :
            /\ rec.out[i1] = rec.elems[i1]
            /\ ExtractValueOp(rec.struct, i1 - 1) = rec.elems[i1]
  /\ rec.status = "reassembled" => rec.back = rec.struct

\* a record of three slots, not all equal, has been taken apart and assembled
\* again
C14_Witness ==
  /\ rec.status = "reassembled"
  /\ Len(rec.elems) = MaxRecLen
  /\ rec.elems[1] # rec.elems[2]

----------------------------------------------------------------------------
(* The base index of the lanes of a cooperative group *)

\* the tensor types whose base indices are computed
BaseTypes ==
  {[shape |-> shp, layout |-> l] :
     shp \in Shapes(1), l \in UNION {BlockedLayouts(1, nw) : nw \in NumWarpsChoices}}
  \cup {[shape |-> shp, layout |-> l] :
          shp \in Shapes(2), l \in UNION {CvtLayouts(2, nw) : nw \in NumWarpsChoices}}

BaseInit ==
  /\ assertsEnabled \in BOOLEAN
  /\ srcTy \in BaseTypes
  /\ dstTy = srcTy
  /\ RtIdle
  /\ idx = NoIdx
  /\ rec = NoRec
  /\ LowIdle

\* step 1 of emitBaseIndexForBlockedLayout, as every lane of the group
\* executes it: the coordinates of the lane in its sub-group and of the
\* sub-group in the group, and the base index
EmitBaseIndex ==
  /\ idx["src"].status = "none"
  /\ idx' = [idx EXCEPT !["src"] =
               [status |-> "base", offsets |-> <<>>,
                lanes |-> [threadId \in Lanes(srcTy.layout) |->
                  [multiDimThreadId |->
                     delinearizeOrdered(threadId % warpSize, srcTy.layout.threadsPerWarp,
                                        srcTy.layout.order),
                   multiDimWarpId |->
                     delinearizeOrdered(threadId \div warpSize, srcTy.layout.warpsPerCTA,
                                        srcTy.layout.order),
                   multiDimBase |->
                     emitBaseIndexForBlockedLayout(srcTy.layout, srcTy.shape, threadId)]]]]
  /\ UNCHANGED <<cfgVars, ssa, rtVars, rec, lowVars>>

BaseNext == EmitBaseIndex

SpecBase == BaseInit /\ [][BaseNext]_vars

\* the linear index of coordinates c in a shape permuted by order, row-major
\* in the permuted dimensions: sum over i of c[order[i]] times the extents of
\* the permuted dimensions after i
PermutedRowMajor(c, shp, order) ==
  LET weight(i) == product([j1 \in 1..(Len(shp) - i) |-> At(shp, order[i + j1])])
      RECURSIVE sum(_)
      sum(i) == IF i = 0 THEN 0 ELSE sum(i - 1) + At(c, order[i]) * weight(i)
  IN sum(Len(shp))

\* C16: the coordinates of lane id are those of id mod 32 in lanesPerSubgroup
\* and of id div 32 in subgroupsPerGroup, delinearized with the layout's
\* order, and base[k] = sizePerThread[k] * (laneCoord[k] + groupCoord[k] *
\* lanesPerSubgroup[k]) with laneCoord[k] reduced modulo
\* ceil(shape[k]/sizePerThread[k]) and groupCoord[k] modulo
\* ceil(shape[k]/(sizePerThread[k]*lanesPerSubgroup[k])).
C16_BaseIndexFormula ==
  idx["src"].status = "base" =>
    \A id \in Lanes(srcTy.layout) :
      LET l == srcTy.layout
          laneCoord == idx["src"].lanes[id].multiDimThreadId
          groupCoord == idx["src"].lanes[id].multiDimWarpId
      IN /\ \A k1 \in 1..Len(srcTy.shape) :
              /\ laneCoord[k1] \in 0..(l.threadsPerWarp[k1] - 1)
              /\ groupCoord[k1] \in 0..(l.warpsPerCTA[k1] - 1)
         /\ PermutedRowMajor(laneCoord, l.threadsPerWarp, l.order) = id % 32
         /\ PermutedRowMajor(groupCoord, l.warpsPerCTA, l.order) = id \div 32
         /\ \A k1 \in 1..Len(srcTy.shape) :
              idx["src"].lanes[id].multiDimBase[k1] =
                l.sizePerThread[k1] *
                  ((laneCoord[k1] % ceil(srcTy.shape[k1], l.sizePerThread[k1]))
                   + (groupCoord[k1] % ceil(srcTy.shape[k1], l.sizePerThread[k1] * l.threadsPerWarp[k1]))
                     * l.threadsPerWarp[k1])

\* the base indices of a rank-2 tensor smaller than the tile of its group of
\* two sub-groups have been computed, lanes and sub-groups wrapping around
C16_Witness ==
  /\ idx["src"].status = "base"
  /\ Len(srcTy.shape) = 2
  /\ numWarpsOf(srcTy.layout) = 2
  /\ \E id \in Lanes(srcTy.layout), k1 \in 1..2 :
       /\ idx["src"].lanes[id].multiDimThreadId[k1] >= ceil(srcTy.shape[k1], srcTy.layout.sizePerThread[k1])
       /\ idx["src"].lanes[id].multiDimWarpId[k1] > 0

\* C19: two lanes t and t+1 of one sub-group, t+1 not a multiple of
\* lanesPerSubgroup[order[0]], have base indices that differ by
\* sizePerThread[order[0]] along order[0] and agree in every other dimension.
C19_FastestDimension ==
  idx["src"].status = "base" =>
    \A id \in Lanes(srcTy.layout) :
      LET l == srcTy.layout
          o0 == l.order[1] + 1
      IN ((id + 1) \in Lanes(l) /\ (id + 1) \div 32 = id \div 32
          /\ ((id + 1) % 32) % l.threadsPerWarp[o0] # 0) =>
           \A k1 \in 1..Len(srcTy.shape) :
             idx["src"].lanes[id + 1].multiDimBase[k1] =
               idx["src"].lanes[id].multiDimBase[k1] + (IF k1 = o0 THEN l.sizePerThread[o0] ELSE 0)

----------------------------------------------------------------------------
(* The order and the range of the enumeration of a Blocked layout *)

\* the row-major linear index of coordinates c in a shape
RowMajor(c, shp) == PermutedRowMajor(c, shp, [i1 \in 1..Len(shp) |-> i1 - 1])

\* C15: with P = product(sizePerThread), record position n holds the element
\* at intra-tile offset e of the tile with replication index t, where t is
\* the row-major delinearization of n div P over the tiles per dimension
\* ceil(shape[k]/shapePerGroup[k]) and e that of n mod P over sizePerThread.
C15_TileMajor ==
  idx["src"].status # "none" =>
    /\ idx["src"].status = "done"
    /\ \E l \in {srcTy.layout} :
         \E P \in {product(l.sizePerThread)} :
           \A n \in 0..(Len(idx["src"].offsets) - 1) :
             LET off == idx["src"].offsets[n + 1]
                 t == [k1 \in 1..Len(srcTy.shape) |-> off[k1] \div shapePerCTA(l, k1 - 1)]
                 e == [k1 \in 1..Len(srcTy.shape) |-> off[k1] % shapePerCTA(l, k1 - 1)]
                 tiles == [k1 \in 1..Len(srcTy.shape) |->
                             ceil(srcTy.shape[k1], shapePerCTA(l, k1 - 1))]
             IN /\ \A k1 \in 1..Len(srcTy.shape) :
                     /\ off[k1] >= 0
                     /\ t[k1] < tiles[k1]
                     /\ e[k1] < l.sizePerThread[k1]
                /\ RowMajor(t, tiles) = n \div P
                /\ RowMajor(e, l.sizePerThread) = n % P

\* C17: every index the enumeration produces, for every lane, lies inside the
\* tensor.
C17_IndicesInsideTensor ==
  idx["src"].status = "done" =>
    \A threadId \in Lanes(srcTy.layout), n \in 0..(Len(idx["src"].offsets) - 1) :
      InShape(IndexOf("src", threadId, n), srcTy.shape)

\* C18: every position at which emitIndicesForBlockedLayout reads the offset
\* table of a dimension is a position of that table.
C18_TableReadsValid ==
  idx["src"].status # "none" =>
    /\ idx["src"].status = "done"
    /\ \A n \in 0..(elemsPerThread(srcTy.layout, srcTy.shape) - 1), k \in 0..(Len(srcTy.shape) - 1) :
         reorderedMultiDimId(srcTy.layout, srcTy.shape, n, k) <
           offsetTableSize(srcTy.layout, srcTy.shape, k)

----------------------------------------------------------------------------
(* The accesses a load or store lowering emits *)

\* C20: a load or store lowering emits elemsPerThread / vectorWidth
\* instructions, one per group g of vectorWidth record positions: a predicated
\* ld for a load and st for a store, over the positions of the group, whose
\* predicate is mask element g * vectorWidth (the constant true without a
\* mask) and whose address is pointer element g * vectorWidth.
C20_OneAccessPerGroup ==
  mem.status = "lowered" =>
    /\ Len(mem.instrs) * mem.plan.vec = getElemsPerThread(srcTy.layout, srcTy.shape)
    /\ \A g \in 0..(Len(mem.instrs) - 1) :
         /\ mem.instrs[g + 1].opcode = (IF mem.op = "store" THEN "st" ELSE "ld")
         /\ mem.instrs[g + 1].pred =
              (IF mem.hasMask THEN <<"maskElems", g * mem.plan.vec>> ELSE <<"constant", 1>>)
         /\ mem.instrs[g + 1].addr = <<"ptrElems", g * mem.plan.vec>>
         /\ mem.instrs[g + 1].elems = (g * mem.plan.vec)..((g + 1) * mem.plan.vec - 1)

\* a masked load lowered to several vector accesses of several words each
C20_Witness ==
  /\ mem.status = "lowered"
  /\ mem.op = "load"
  /\ mem.hasMask
  /\ Len(mem.instrs) > 1
  /\ mem.plan.vec > 1
  /\ mem.plan.nWords > 1

----------------------------------------------------------------------------
(* The words of a vector access *)

\* the element width in bits, at least 8
elementBits(bits) == Max(8, bits)

\* C21: for every vector of a load or store lowering the word width is
\* w = min(max(32, elementBits), elementBits * vectorWidth) and the number of
\* words of the vector is ceil(elementBits * vectorWidth / w), elementBits
\* being the element width rounded up to at least 8 bits.
C21_WordWidth ==
  mem.status = "lowered" =>
    LET eb == elementBits(mem.elemBits)
        w == Min(Max(32, eb), eb * mem.plan.vec)
    IN /\ mem.plan.width = w
       /\ mem.plan.nWords = ceil(eb * mem.plan.vec, w)

\* a lowering of 64-bit elements with several words, and so several 64-bit
\* words, per vector
C21_Witness ==
  /\ mem.status = "lowered"
  /\ mem.elemBits = 64
  /\ mem.plan.vec = 4
  /\ mem.plan.nWords = 4
  /\ mem.plan.width = 64

\* the record positions (vecStart + wordIdx * wordNElems + elemIdx) read while
\* the words of the vectors are packed, one triple per read
packReads(plan) ==
  {<<g, wordIdx, elemIdx>> :
     g \in 0..(ceil(plan.numElems, plan.vec) - 1),
     wordIdx \in 0..(plan.nWords - 1), elemIdx \in 0..(plan.wordNElems - 1)}

elemOffset(plan, t) == t[1] * plan.vec + t[2] * plan.wordNElems + t[3]

\* C22: the assertion wordNElems * nWords * numVecs = numElems of the load and
\* store lowerings holds for every input, so no lowering stops there; the
\* words of all the vectors together carry every one of the lane's elements
\* exactly once, and every record position read while packing is valid.
C22_WordsCoverRecord ==
  /\ mem.status = "none" =>
       LET plan == vectorPlan(srcTy.layout, srcTy.shape, mem.divisibility,
                              mem.contiguity, mem.elemBits)
       IN plan.wordNElems * plan.nWords * plan.numVecs = plan.numElems
  /\ mem.status = "lowered" =>
       /\ mem.plan.numElems = getElemsPerThread(srcTy.layout, srcTy.shape)
       /\ \A t \in packReads(mem.plan) : elemOffset(mem.plan, t) < mem.plan.numElems
       /\ \A p \in 0..(mem.plan.numElems - 1) :
            Cardinality({t \in packReads(mem.plan) : elemOffset(mem.plan, t) = p}) = 1

\* a lowering of 8-bit elements in several vectors of one word of several
\* elements each
C22_Witness ==
  /\ mem.status = "lowered"
  /\ mem.elemBits = 8
  /\ mem.plan.wordNElems = 2
  /\ mem.plan.nWords = 1
  /\ mem.plan.numVecs > 1

----------------------------------------------------------------------------
(* The lowering of a load and what its inline assembly computes *)

\* a lane of the load sub-model owns at most 2^MaxLogLoadElems elements
MaxLogLoadElems == 3

\* the element widths of the loads drawn (i8, i16/f16, i32/f32, i64/f64)
LoadElemBits == {8, 16, 32, 64}

\* the fallback elements drawn: non-negative values that fit every element
\* type, so that getSExtValue returns the element itself
FallbackVals == {0, 1}

LoadTypes ==
  {ty \in {[shape |-> shp, layout |-> l] : shp \in Shapes(1), l \in BlockedLayouts(1, 1)} :
     getElemsPerThread(ty.layout, ty.shape) <= Pow2(MaxLogLoadElems)}

\* the records of the `other` operand: uniform ones and one that is not
OtherRecords(n) ==
  {[i1 \in 1..n |-> v] : v \in FallbackVals} \cup {[i1 \in 1..n |-> (i1 - 1) % 3]}

\* DenseElementsAttr::isSplat
isSplat(elems) == \A i1 \in 1..Len(elems) : elems[i1] = elems[1]

\* otherIsSplatConstInt and splatVal: integer elements, `other` defined by a
\* constant, the constant a splat
otherIsSplatConstInt(elemKind, other, otherElems) ==
  elemKind = "int" /\ other = "constant" /\ isSplat(otherElems)

\* the vector v of a word of fallback elements, bitcast to an integer of the
\* word's width: element s of the vector is otherElems[vecStart + ii*size + s]
packOther(otherElems, vecStart, ii, size) ==
  [s1 \in 1..size |-> <<"bits", otherElems[vecStart + ii * size + (s1 - 1) + 1]>>]

\* the operand of the mov of word ii: the immediate splatVal, or the register
\* that holds v
movOperand(isConstInt, otherElems, vecStart, ii, size) ==
  IF isConstInt THEN <<"imm", otherElems[1]>>
  ELSE <<"reg", packOther(otherElems, vecStart, ii, size)>>

\* a variant that takes sub-element ii / nWords of word ii % nWords
extractLoadedInterleaved(plan, g) ==
  [j1 \in 1..plan.vec |-> <<g, (j1 - 1) % plan.nWords, (j1 - 1) \div plan.nWords>>]

\* the values pushed to loadedVals for vector g: for ii < vec, element
\* ii % tmp of rets[ii / tmp] with tmp = width / valueElemNbits
extractLoaded(plan, g) ==
  LET tmp == plan.wordNElems
  IN [j1 \in 1..plan.vec |-> <<g, (j1 - 1) \div tmp, (j1 - 1) % tmp>>]

\* the inline assembly of vector g: the ld, then one mov per word when the
\* load has an `other` operand
loadAsm(plan, g, hasMask, other, isConstInt, otherElems) ==
  LET vecStart == g * plan.vec
  IN [pred |-> IF hasMask THEN <<"maskElems", vecStart>> ELSE <<"constant", 1>>,
      addr |-> <<"ptrElems", vecStart>>,
      movs |-> IF other = "none" THEN << >>
               ELSE [ii1 \in 1..plan.nWords |->
                       movOperand(isConstInt, otherElems, vecStart, ii1 - 1, plan.wordNElems)]]

LoadInit ==
  /\ assertsEnabled \in BOOLEAN
  /\ srcTy \in LoadTypes
  /\ dstTy = srcTy
  /\ RtIdle
  /\ idx = NoIdx
  /\ rec = NoRec
  /\ \E d \in Pow2UpTo(MaxLogAxis), c \in Pow2UpTo(MaxLogAxis), b \in LoadElemBits,
        m \in BOOLEAN, k \in {"int", "float"}, o \in {"none", "value", "constant"} :
       \E oe \in IF o = "none" THEN {<< >>}
                 ELSE OtherRecords(getElemsPerThread(srcTy.layout, srcTy.shape)) :
         mem = [status |-> "none", divisibility |-> d, contiguity |-> c, elemBits |-> b,
                hasMask |-> m, elemKind |-> k, other |-> o, otherElems |-> oe]
  /\ bc = NoBc
  /\ cvt = NoCvt
  /\ drv = NoDrv
  /\ ssa = NoSsa

\* LoadOpConversion::matchAndRewrite of a load of a ranked tensor
LoadLower ==
  /\ mem.status = "none"
  /\ \E plan \in {vectorPlan(srcTy.layout, srcTy.shape, mem.divisibility,
                             mem.contiguity, mem.elemBits)} :
       LET numGroups == ceil(plan.numElems, plan.vec)
           isConstInt == otherIsSplatConstInt(mem.elemKind, mem.other, mem.otherElems)
           loadedVals == Concat([g1 \in 1..numGroups |-> extractLoaded(plan, g1 - 1)],
                                numGroups)
       IN /\ assertsEnabled => plan.wordNElems * plan.nWords * plan.numVecs = plan.numElems
          /\ mem' = [status |-> "lowered", divisibility |-> mem.divisibility,
                     contiguity |-> mem.contiguity, elemBits |-> mem.elemBits,
                     hasMask |-> mem.hasMask, elemKind |-> mem.elemKind,
                     other |-> mem.other, otherElems |-> mem.otherElems,
                     plan |-> plan,
                     asm |-> [g1 \in 1..numGroups |->
                                loadAsm(plan, g1 - 1, mem.hasMask, mem.other, isConstInt,
                                        mem.otherElems)],
                     resultStruct |-> getStructFromElements(loadedVals, Len(loadedVals),
                                                            Len(loadedVals)),
                     exec |-> [g |-> 0, pred |-> TRUE, words |-> << >>]]
  /\ UNCHANGED <<cfgVars, ssa, rtVars, idx, rec, bc, cvt, drv>>

\* lane k (of elemBits bits each) of the word a mov.u<width> writes for the
\* immediate v
RECURSIVE immediateLane(_, _, _)
immediateLane(v, elemBits, k) ==
  IF elemBits >= 31 THEN (IF k = 0 THEN v ELSE 0)
  ELSE IF k = 0 THEN v % Pow2(elemBits)
  ELSE immediateLane(v \div Pow2(elemBits), elemBits, k - 1)

\* the word a mov writes: the register's content, or the immediate
movValue(opr, elemBits, size) ==
  IF opr[1] = "reg" THEN opr[2]
  ELSE [s1 \in 1..size |-> <<"bits", immediateLane(opr[2], elemBits, s1 - 1)>>]

\* a lane runs the inline assembly of vector g: under a true predicate the ld
\* writes the words at the address, under a false one every mov writes its
\* operand, and without a mov the destination keeps what it held
ExecuteGroup ==
  /\ mem.status = "lowered"
  /\ \E g \in 0..(Len(mem.asm) - 1), p \in BOOLEAN :
       /\ ~mem.hasMask => p
       /\ LET a == mem.asm[g + 1]
              size == mem.plan.wordNElems
              words == [ii1 \in 1..mem.plan.nWords |->
                          IF p THEN [s1 \in 1..size |->
                                       <<"mem", g * mem.plan.vec + (ii1 - 1) * size + (s1 - 1)>>]
                          ELSE IF a.movs = << >> THEN [s1 \in 1..size |-> <<"undef", 0>>]
                          ELSE movValue(a.movs[ii1], elementBits(mem.elemBits), size)]
          IN mem' = [mem EXCEPT !.status = "executed",
                                !.exec = [g |-> g, pred |-> p, words |-> words]]
  /\ UNCHANGED <<cfgVars, ssa, rtVars, idx, rec, bc, cvt, drv>>

LoadNext ==
  \/ LoadLower
  \/ ExecuteGroup

SpecLoad == LoadInit /\ [][LoadNext]_vars

\* C23: after the assembly of a vector of a load with an `other` operand ran
\* under a false predicate, every result word of the vector is the packing of
\* the word's fallback elements otherElems[vecStart + wordIdx * wordNElems ..
\* + wordNElems - 1], whether the fallback is a register operand of the mov or
\* a splat integer constant given as an immediate, for every element width.
C23_FallbackWord ==
  (mem.status = "executed" /\ mem.other # "none" /\ ~mem.exec.pred) =>
    \A wordIdx \in 0..(mem.plan.nWords - 1) :
      mem.exec.words[wordIdx + 1] =
        [s1 \in 1..mem.plan.wordNElems |->
           <<"bits", mem.otherElems[mem.exec.g * mem.plan.vec
                                    + wordIdx * mem.plan.wordNElems + s1]>>]

\* C24: the result record of a lowered load has elemsPerThread entries, and
\* the entry at position g * vectorWidth + j (0 <= j < vectorWidth) is
\* sub-element j mod wordNElems of result word j div wordNElems of vector g,
\* a word index below the number of words.
C24_ResultRecord ==
  mem.status \in {"lowered", "executed"} =>
    /\ Len(mem.resultStruct) = getElemsPerThread(srcTy.layout, srcTy.shape)
    /\ \A g \in 0..(Len(mem.asm) - 1), j \in 0..(mem.plan.vec - 1) :
         /\ g * mem.plan.vec + j < Len(mem.resultStruct)
         /\ ExtractValueOp(mem.resultStruct, g * mem.plan.vec + j) =
              <<g, j \div mem.plan.wordNElems, j % mem.plan.wordNElems>>
         /\ j \div mem.plan.wordNElems < mem.plan.nWords

\* a load lowered to vectors of several words of several elements
C24_Witness ==
  /\ mem.status = "lowered"
  /\ mem.plan.vec = 4
  /\ mem.plan.nWords = 2
  /\ mem.plan.wordNElems = 2

----------------------------------------------------------------------------
(* The replication plan of the layout conversion *)

\* the type pairs of the plan sub-model: rank 1 with every number of
\* sub-groups, rank 2 with one and both layouts row-major (the plan does not
\* read the order)
PlanLayouts2 == {l \in BlockedLayouts(2, 1) : l.order = <<1, 0>>}

PlanTypePairs ==
  {<<[shape |-> shp, layout |-> ls], [shape |-> shp, layout |-> ld]>> :
     shp \in Shapes(1),
     ls \in UNION {BlockedLayouts(1, nw) : nw \in NumWarpsChoices},
     ld \in UNION {BlockedLayouts(1, nw) : nw \in NumWarpsChoices}}
  \cup {<<[shape |-> shp, layout |-> ls], [shape |-> shp, layout |-> ld]>> :
          shp \in Shapes(2), ls \in PlanLayouts2, ld \in PlanLayouts2}

PlanInit ==
  /\ assertsEnabled \in BOOLEAN
  /\ \E pair \in PlanTypePairs :
       /\ srcTy = pair[1]
       /\ dstTy = pair[2]
  /\ RtIdle
  /\ idx = NoIdx
  /\ rec = NoRec
  /\ mem = NoMem
  /\ bc = NoBc
  /\ cvt = [status |-> "none", ops |-> 1]
  /\ drv = NoDrv
  /\ ssa = NoSsa

\* matchAndRewrite of one conversion between two Blocked layouts: the plan and
\* the instructions emitted under it
ConvertLayoutPlan ==
  /\ cvt.status = "none"
  /\ \E plan \in {cvtPlan(srcTy, dstTy)} :
       /\ assertsEnabled => plan.divides
       /\ cvt' = [status |-> "planned", ops |-> cvt.ops, plan |-> plan,
                  prog |-> cvtStream(srcTy, dstTy, 1)]
  /\ UNCHANGED <<cfgVars, ssa, rtVars, idx, rec, mem, bc, drv>>

PlanNext == ConvertLayoutPlan

SpecPlan == PlanInit /\ [][PlanNext]_vars

\* the native passes of a side the emitted instructions visit, one entry per
\* visit: the linear pass number (first / accumSizePerThread) of the first
\* vector (elemId = 0) of every pass
visitedPasses(prog, op, ty) ==
  LET firsts == SelectSeq(prog, LAMBDA ins : ins.op = op /\ ins.elemId = 0)
  IN [i1 \in 1..Len(firsts) |-> firsts[i1].first \div product(ty.layout.sizePerThread)]

\* C25: in every dimension d, with perPass_side = min(shape[d],
\* shapePerGroup_side[d]) and maxPerPass the larger of the two sides,
\* replicationCount[d] = ceil(shape[d] / maxPerPass), maxPerPass is a multiple
\* of perPass_side (the assertion of the plan), replicationCount[d] *
\* (maxPerPass / perPass_side) is the side's number of passes
\* ceil(shape[d] / perPass_side), and so the rounds visit every native pass of
\* each side exactly once.
C25_PlanCoversPasses ==
  /\ cvt.status = "none" => cvtPlan(srcTy, dstTy).divides
  /\ cvt.status = "planned" =>
       /\ \A d1 \in 1..Len(dstTy.shape) :
            LET perPassIn == Min(dstTy.shape[d1], shapePerCTA(srcTy.layout, d1 - 1))
                perPassOut == Min(dstTy.shape[d1], shapePerCTA(dstTy.layout, d1 - 1))
                maxPerPass == Max(perPassIn, perPassOut)
            IN /\ cvt.plan.numReplicates[d1] = ceil(dstTy.shape[d1], maxPerPass)
               /\ maxPerPass % perPassIn = 0
               /\ maxPerPass % perPassOut = 0
               /\ cvt.plan.numReplicates[d1] * cvt.plan.inNumCTAsEachRep[d1]
                    = ceil(dstTy.shape[d1], perPassIn)
               /\ cvt.plan.numReplicates[d1] * cvt.plan.outNumCTAsEachRep[d1]
                    = ceil(dstTy.shape[d1], perPassOut)
       /\ \A side \in {<<"store", srcTy>>, <<"load", dstTy>>} :
            LET visits == visitedPasses(cvt.prog, side[1], side[2])
                total == product([d1 \in 1..Len(dstTy.shape) |->
                                    ceil(dstTy.shape[d1],
                                         Min(dstTy.shape[d1],
                                             shapePerCTA(side[2].layout, d1 - 1)))])
            IN /\ Len(visits) = total
               /\ \A n \in 0..(total - 1) :
                    Cardinality({i1 \in 1..Len(visits) : visits[i1] = n}) = 1

\* a plan of rank 2 with several rounds in which the source side makes
\* several passes per round in one dimension and the destination side in the
\* other
C25_Witness ==
  /\ cvt.status = "planned"
  /\ Len(dstTy.shape) = 2
  /\ product(cvt.plan.numReplicates) > 1
  /\ cvt.plan.inNumCTAsEachRep[1] > 1
  /\ cvt.plan.outNumCTAsEachRep[2] > 1

----------------------------------------------------------------------------
(* The store phase of a replication round *)

\* the rank-2 tensors of the store-phase sub-model
StoreShapes2 == {<<8, 8>>, <<16, 8>>, <<8, 1>>, <<1, 8>>}

StoreTypePairs ==
  {<<[shape |-> shp, layout |-> ls], [shape |-> shp, layout |-> ld]>> :
     shp \in StoreShapes2, ls \in BlockedLayouts(2, 1), ld \in CvtLayouts(2, 1)}

StoreInit ==
  /\ assertsEnabled \in BOOLEAN
  /\ \E pair \in StoreTypePairs :
       /\ srcTy = pair[1]
       /\ dstTy = pair[2]
  /\ RtIdle
  /\ idx = NoIdx
  /\ rec = NoRec
  /\ mem = NoMem
  /\ bc = NoBc
  /\ cvt = [status |-> "none", ops |-> 1]
  /\ drv = NoDrv
  /\ ssa = NoSsa

\* the cells the lanes write between the two barriers of round repId: one
\* tuple <<cell, lane, record slot, coordinate of the slot>> per scalar of
\* every vector store that processReplicaBlocked emits for the source side
storeWrites(sTy, dTy, repId) ==
  LET plan == cvtPlan(sTy, dTy)
      cfg == getScratchConfigForCvtLayout(sTy, dTy)
      multiDimRepId == getMultiDimIndex(repId, plan.numReplicates)
      stores == processReplicaBlocked(TRUE, sTy, plan.inNumCTAsEachRep, multiDimRepId,
                                      cfg.inVec, 1)
  IN UNION {{<<cvtOffset(sTy, dTy.layout.order, cfg.paddedRepShape, stores[i1], t) + v,
               t, stores[i1].first + v, slotCoord(sTy, t, stores[i1].first + v)>> :
                v \in 0..(stores[i1].vec - 1)} :
              i1 \in 1..Len(stores), t \in Lanes(sTy.layout)}

\* the lanes run the stores of round repId of a lowered conversion
StorePhase ==
  /\ cvt.status = "none"
  /\ assertsEnabled => cvtPlan(srcTy, dstTy).divides
  /\ \E repId \in 0..(product(cvtPlan(srcTy, dstTy).numReplicates) - 1) :
       cvt' = [status |-> "stored", ops |-> cvt.ops, round |-> repId,
               writes |-> storeWrites(srcTy, dstTy, repId)]
  /\ UNCHANGED <<cfgVars, ssa, rtVars, idx, rec, mem, bc, drv>>

StoreNext == StorePhase

SpecStore == StoreInit /\ [][StoreNext]_vars

\* C26: in the store phase of a round two distinct lanes store to the same
\* cell of the buffer only if they own the same tensor coordinate under the
\* source layout, and no lane stores twice to the same cell.
C26_StoresAgree ==
  cvt.status = "stored" =>
    \* every cell written receives one coordinate, from every lane once
    /\ Cardinality({<<x[1], x[4]>> : x \in cvt.writes}) = Cardinality({x[1] : x \in cvt.writes})
    /\ Cardinality({<<x[1], x[2]>> : x \in cvt.writes}) = Cardinality(cvt.writes)

----------------------------------------------------------------------------
(* The index enumeration of a Sliced layout *)

\* SliceEncodingAttr: the sliced axis and the parent layout
Sliced(dim, parent) == [kind |-> "slice", dim |-> dim, parent |-> parent]

\* the parents drawn: the rank-2 Blocked layouts of one sub-group, a Sliced
\* layout, and a layout that is neither
SliceParents ==
  BlockedLayouts(2, 1) \cup {Sliced(0, NonBlocked), NonBlocked}

\* paddedShape: the shape with a dimension of size 1 put in at dim
paddedShape(shp, dim) ==
  [d1 \in 1..(Len(shp) + 1) |->
     IF d1 - 1 < dim THEN shp[d1]
     ELSE IF d1 - 1 = dim THEN 1
     ELSE shp[d1 - 1]]

\* a variant that leaves out the last coordinate
dropDimLast(index, dim, d) == SubSeq(index, 1, Len(index) - 1)

\* the inner loop over d: every coordinate but the one at dim is pushed
RECURSIVE dropDim(_, _, _)
dropDim(index, dim, d) ==
  IF d >= Len(index) THEN << >>
  ELSE (IF d # dim THEN <<At(index, d)>> ELSE << >>) \o dropDim(index, dim, d + 1)

\* emitIndicesForSliceLayout with a Blocked parent. An index value is written
\* <<d, c>>: coordinate d of the lane's base index under the parent plus the
\* constant c
emitIndicesForSliceLayout(sliceLayout, shp, g) ==
  LET blockedParent == sliceLayout.parent
      padded == paddedShape(shp, sliceLayout.dim)
      offsets == emitIndicesForBlockedLayout(blockedParent, padded, g)
      paddedIndices == [i1 \in 1..Len(offsets) |->
                          [d1 \in 1..Len(padded) |-> <<d1 - 1, offsets[i1][d1]>>]]
      numIndices == Len(paddedIndices)
  IN [paddedIndices |-> paddedIndices,
      resultIndices |-> [i1 \in 1..numIndices |->
                           dropDim(paddedIndices[i1], sliceLayout.dim, 0)]]

SliceInit ==
  /\ assertsEnabled \in BOOLEAN
  /\ \E shp \in Shapes(1), dim \in 0..1, parent \in SliceParents :
       /\ srcTy = [shape |-> shp, layout |-> Sliced(dim, parent)]
       /\ dstTy = [shape |-> paddedShape(shp, dim), layout |-> parent]
  /\ RtIdle
  /\ idx = NoIdx
  /\ rec = NoRec
  /\ LowIdle

\* emitIndicesForSliceLayout returns the indices of a slice of a Blocked
\* parent; idx["dst"] keeps the parent's indices over the padded shape
EmitIndicesSlice ==
  /\ idx["src"].status = "none"
  /\ isBlocked(srcTy.layout.parent)
  /\ \E oob \in {OobReads(dstTy.layout, dstTy.shape)} :
       /\ oob # {} => ~assertsEnabled
       /\ \E v \in (IF oob = {} THEN {0} ELSE GarbageValues) :
            \E r \in {emitIndicesForSliceLayout(srcTy.layout, srcTy.shape,
                                                [kp \in oob |-> v])} :
              idx' = [src |-> [status |-> "done", offsets |-> r.resultIndices],
                      dst |-> [status |-> "done", offsets |-> r.paddedIndices]]
  /\ UNCHANGED <<cfgVars, ssa, rtVars, rec, lowVars>>

\* with assertions compiled in: the bounds assertion of the parent's offset
\* tables, or assert(0 && "... not implemented yet") for a parent that is not
\* Blocked
EmitIndicesSliceAbort ==
  /\ idx["src"].status = "none"
  /\ assertsEnabled
  /\ isBlocked(srcTy.layout.parent) => OobReads(dstTy.layout, dstTy.shape) # {}
  /\ idx' = [idx EXCEPT !["src"] = [status |-> "abort", offsets |-> << >>]]
  /\ UNCHANGED <<cfgVars, ssa, rtVars, rec, lowVars>>

\* without assertions a parent that is not Blocked makes the function return
\* an empty list of indices
EmitIndicesSliceEmpty ==
  /\ idx["src"].status = "none"
  /\ ~assertsEnabled
  /\ ~isBlocked(srcTy.layout.parent)
  /\ idx' = [idx EXCEPT !["src"] = [status |-> "done", offsets |-> << >>]]
  /\ UNCHANGED <<cfgVars, ssa, rtVars, rec, lowVars>>

SliceNext ==
  \/ EmitIndicesSlice
  \/ EmitIndicesSliceAbort
  \/ EmitIndicesSliceEmpty

SpecSlice == SliceInit /\ [][SliceNext]_vars

\* what C27 states of a slice of a Blocked parent: as many indices as the
\* parent's enumeration over the padded shape, index i the parent's index i
\* without the coordinate at the sliced axis
SliceOfBlockedParent ==
  LET dim == srcTy.layout.dim
      r == Len(srcTy.shape)
  IN /\ Len(idx["src"].offsets) = elemsPerThread(dstTy.layout, dstTy.shape)
     /\ Len(idx["src"].offsets) = Len(idx["dst"].offsets)
     /\ \A i1 \in 1..Len(idx["src"].offsets) :
          /\ Len(idx["src"].offsets[i1]) = r
          /\ \A k \in 0..(r - 1) :
               At(idx["src"].offsets[i1], k) =
                 At(idx["dst"].offsets[i1], IF k < dim THEN k ELSE k + 1)

\* C27: for a Sliced layout with a Blocked parent the enumeration over a
\* rank-r shape returns as many indices as the parent's enumeration over the
\* shape with a dimension of size 1 put in at the sliced axis, in the same
\* order, index i being the parent's index i without the coordinate at that
\* axis; a parent that is not Blocked is a fatal failure.
C27_SliceIndices ==
  idx["src"].status # "none" =>
    IF isBlocked(srcTy.layout.parent)
    THEN idx["src"].status = "done" => SliceOfBlockedParent
    ELSE idx["src"].status = "abort"

----------------------------------------------------------------------------
(* The rewrites of single operations and what they leave behind *)

\* the records of the rewritten operations have at most 2^MaxLogRwElems
\* elements
MaxLogRwElems == 2

\* n operations of one name, in creation order
Created(name, n) == [i1 \in 1..n |-> name]

\* the operations handed to the patterns: the name, whether the value (the
\* result for a binary operation) is a ranked tensor, the record length and
\* vector width of a tensor, whether a mask and an `other` operand are given,
\* and the number of operands of a return
RwOps ==
  {[name |-> n, tensor |-> t, elems |-> e, vec |-> v, hasMask |-> m, hasOther |-> o,
    numOperands |-> 0] :
     n \in {"tt.store", "tt.load", "arith.addf"}, t \in BOOLEAN,
     e \in Pow2UpTo(MaxLogRwElems), v \in Pow2UpTo(MaxLogRwElems),
     m \in BOOLEAN, o \in BOOLEAN}
  \cup {[name |-> "std.return", tensor |-> FALSE, elems |-> 1, vec |-> 1, hasMask |-> FALSE,
         hasOther |-> FALSE, numOperands |-> k] : k \in 0..2}

\* a variant that takes the operand records apart before it looks at the type
StoreOpConversionExtractsFirst(op) ==
  [result |-> IF op.tensor THEN "success" ELSE "failure",
   created |-> Created("llvm.extractvalue", 2 * op.elems),
   original |-> IF op.tensor THEN "erased" ELSE "kept"]

\* StoreOpConversion::matchAndRewrite of a store of 32-bit elements: what it
\* returns, the operations it creates and what becomes of the store
StoreOpConversion(op) ==
  IF ~op.tensor
  THEN [result |-> "failure", created |-> << >>, original |-> "kept"]
  ELSE LET vec == Min(op.vec, op.elems)
           word == <<"llvm.undef", "llvm.bitcast", "llvm.constant", "llvm.insertelement",
                     "llvm.bitcast">>
           vector == Concat([w1 \in 1..vec |-> word], vec)
                     \o (IF op.hasMask THEN << >> ELSE <<"llvm.constant">>)
                     \o <<"llvm.inline_asm">>
       IN [result |-> "success",
           created |-> Created("llvm.extractvalue",
                               (IF op.hasMask THEN 3 ELSE 2) * op.elems)
                       \o Concat([g1 \in 1..(op.elems \div vec) |-> vector], op.elems \div vec),
           original |-> "erased"]

\* LoadOpConversion::matchAndRewrite of a load of 32-bit elements
LoadOpConversion(op) ==
  IF ~op.tensor
  THEN [result |-> "failure", created |-> << >>, original |-> "kept"]
  ELSE LET vec == Min(op.vec, op.elems)
           mov == <<"llvm.undef", "llvm.constant", "llvm.insertelement", "llvm.bitcast">>
           ret == (IF vec > 1 THEN <<"llvm.extractvalue">> ELSE << >>) \o <<"llvm.bitcast">>
           vector == (IF op.hasMask THEN << >> ELSE <<"llvm.constant">>)
                     \o (IF op.hasOther THEN Concat([w1 \in 1..vec |-> mov], vec) ELSE << >>)
                     \o <<"llvm.inline_asm">>
                     \o Concat([w1 \in 1..vec |-> ret], vec)
                     \o Concat([w1 \in 1..vec |-> <<"llvm.constant", "llvm.extractelement">>],
                               vec)
       IN [result |-> "success",
           created |-> Created("llvm.extractvalue",
                               (1 + (IF op.hasMask THEN 1 ELSE 0)
                                  + (IF op.hasOther THEN 1 ELSE 0)) * op.elems)
                       \o Concat([g1 \in 1..(op.elems \div vec) |-> vector], op.elems \div vec)
                       \o <<"llvm.undef">> \o Created("llvm.insertvalue", op.elems),
           original |-> "replaced"]

\* BinaryOpConversion::matchAndRewrite
BinaryOpConversion(op) ==
  IF ~op.tensor
  THEN [result |-> "failure", created |-> << >>, original |-> "kept"]
  ELSE [result |-> "success",
        created |-> Created("llvm.extractvalue", 2 * op.elems)
                    \o Created("llvm.fadd", op.elems)
                    \o <<"llvm.undef">> \o Created("llvm.insertvalue", op.elems),
        original |-> "replaced"]

\* ReturnOpConversion::matchAndRewrite
ReturnOpConversion(op) ==
  IF op.numOperands > 0
  THEN [result |-> "failure", created |-> << >>, original |-> "kept"]
  ELSE [result |-> "success", created |-> <<"llvm.return">>, original |-> "replaced"]

\* the operations around the rewritten one in its block
RwContexts == {<< >>, <<"gpu.thread_id">>, <<"tt.splat", "tt.dot">>}

RwInit ==
  /\ assertsEnabled \in BOOLEAN
  /\ srcTy = NoTy /\ dstTy = NoTy
  /\ RtIdle
  /\ idx = NoIdx
  /\ \E op \in RwOps, pre \in RwContexts, post \in RwContexts :
       rec = [status |-> "none", op |-> op, pre |-> pre, post |-> post,
              block |-> pre \o <<op.name>> \o post, created |-> << >>]
  /\ LowIdle

\* the rewriter after a pattern ran on the operation: the created operations
\* stand before the operation, which is kept, erased or replaced
Rewrite(r) ==
  /\ rec' = [status |-> r.result, op |-> rec.op, pre |-> rec.pre, post |-> rec.post,
             block |-> rec.pre \o r.created
                       \o (IF r.original = "kept" THEN <<rec.op.name>> ELSE << >>)
                       \o rec.post,
             created |-> r.created]
  /\ UNCHANGED <<cfgVars, ssa, rtVars, idx, lowVars>>

StoreRewrite ==
  /\ rec.status = "none" /\ rec.op.name = "tt.store"
  /\ Rewrite(StoreOpConversion(rec.op))

LoadRewrite ==
  /\ rec.status = "none" /\ rec.op.name = "tt.load"
  /\ Rewrite(LoadOpConversion(rec.op))

BinaryRewrite ==
  /\ rec.status = "none" /\ rec.op.name = "arith.addf"
  /\ Rewrite(BinaryOpConversion(rec.op))

ReturnRewrite ==
  /\ rec.status = "none" /\ rec.op.name = "std.return"
  /\ Rewrite(ReturnOpConversion(rec.op))

RwNext ==
  \/ StoreRewrite
  \/ LoadRewrite
  \/ BinaryRewrite
  \/ ReturnRewrite

SpecRw == RwInit /\ [][RwNext]_vars

\* C28: a rewrite that returns failure (a load or store whose value is not a
\* ranked tensor, a binary operation whose result is not one, a return with
\* operands) has created no operation and the block holds the original
\* operation where it was, between the same operations.
C28_FailureLeavesOpUntouched ==
  /\ rec.status = "failure" =>
       /\ rec.created = << >>
       /\ rec.block = rec.pre \o <<rec.op.name>> \o rec.post
  /\ rec.status \in {"failure", "success"} =>
       (rec.status = "failure" <=>
          IF rec.op.name = "std.return" THEN rec.op.numOperands > 0 ELSE ~rec.op.tensor)

\* a store of a value that is not a ranked tensor, between other operations,
\* has been turned down
C28_Witness ==
  /\ rec.status = "failure"
  /\ rec.op.name = "tt.store"
  /\ rec.pre # << >>
  /\ rec.post # << >>


----------------------------------------------------------------------------
(* The toy front-end: SSA construction while a function definition is generated *)

\* the longest function body, in statements and statement brackets
MaxToks == 5

\* the depth of the machine stack the recursion of get_value may use
MaxStack == 12

\* the variables of the function: its parameters, bound before the body
Names == {"x"}

\* the order in which a map keyed by name enumerates the names
NameOrder == <<"x">>

\* the null block: the key under which bind_parameters records the parameters
nullptr == 0

\* what a body is made of: a named expression, an assignment, the opening and the end of
\* an iteration statement, the opening of a selection statement without and with else,
\* the else, the end of a selection statement
Tokens == {"read", "write", "for", "endfor", "if", "ifelse", "else", "endif"}

\* a body is a statement list: every bracket is closed by its own end, in order
RECURSIVE WellNested(_, _, _)
WellNested(p, i, open) ==
  IF i > Len(p) THEN open = << >>
  ELSE LET t == p[i]
           top == IF open = << >> THEN "none" ELSE open[Len(open)]
           rest == IF open = << >> THEN << >> ELSE SubSeq(open, 1, Len(open) - 1)
       IN CASE t = "for" -> WellNested(p, i + 1, Append(open, "endfor"))
            [] t = "if" -> WellNested(p, i + 1, Append(open, "endif"))
            [] t = "ifelse" -> WellNested(p, i + 1, Append(open, "else"))
            [] t = "else" -> top = "else" /\ WellNested(p, i + 1, Append(rest, "endif"))
            [] t \in {"endfor", "endif"} -> top = t /\ WellNested(p, i + 1, rest)
            [] OTHER -> WellNested(p, i + 1, open)

FunctionBodies == {p \in UNION {[1..n -> Tokens] : n \in 0..MaxToks} : WellNested(p, 1, << >>)}

\* the two orders in which predecessors(block) may enumerate the branches that use a block
PredOrders == {"newestFirst", "oldestFirst"}

\* what a build does when a function declared to return a value ends without a return
\* statement (seal_block, selection_statement::codegen): it returns, or it runs into a trap
FlowOffOutcomes == {"returns", "traps"}

SsaInit ==
  /\ assertsEnabled \in BOOLEAN
  /\ srcTy = NoTy /\ dstTy = NoTy
  /\ RtIdle
  /\ idx = NoIdx
  /\ rec = NoRec
  /\ mem = NoMem
  /\ bc = NoBc
  /\ cvt = NoCvt
  /\ drv = NoDrv
  /\ \E p \in FunctionBodies, o \in PredOrders, f \in FlowOffOutcomes :
       ssa = [pc |-> "start",
              prog |-> p,
              ip |-> 1,
              order |-> o,
              flowOff |-> f,
              nblocks |-> 0,
              preds |-> << >>,
              hasInstr |-> {},
              cur |-> nullptr,
              sealed_blocks_ |-> {nullptr},
              values_ |-> {},
              incomplete_phis_ |-> {},
              phis |-> {},
              ctl |-> << >>,
              stack |-> << >>]


Frame(fn, name, block, at, i) == [fn |-> fn, name |-> name, block |-> block, at |-> at, i |-> i]

\* a step of the front-end ends in the record r, unless the calls it makes no longer fit
\* the machine stack
SsaStep(r) ==
  /\ ssa' = IF Len(r.stack) > MaxStack THEN [ssa EXCEPT !.pc = "overflow"] ELSE r
  /\ UNCHANGED <<cfgVars, rtVars, idx, rec, mem, bc, cvt, drv>>

\* BasicBlock::Create: the new block has no predecessor yet
createBlock(r) == [r EXCEPT !.nblocks = @ + 1, !.preds = Append(@, << >>)]

\* a branch from the insertion block to block `to`: the branch becomes a user of `to`
createBr(r, to) ==
  [r EXCEPT !.preds[to] = IF r.order = "newestFirst" THEN <<r.cur>> \o @ ELSE Append(@, r.cur),
            !.hasInstr = @ \cup {r.cur}]

set_value(r, name, block) == [r EXCEPT !.values_ = @ \cup {<<name, block>>}]

\* the phi lands in the block when the block has an instruction to insert before, and the
\* builder is then left at the end of that block; in an empty block the builder is not
\* moved and the phi lands where the builder stands
make_phi(r, name, block) ==
  LET inBlock == block \in r.hasInstr
  IN [r EXCEPT !.phis = @ \cup {[name |-> name, block |-> block,
                                 parent |-> IF inBlock THEN block ELSE r.cur,
                                 incoming |-> << >>]},
               !.cur = IF inBlock THEN block ELSE @]

addIncoming(r, name, block, pred) ==
  [r EXCEPT !.phis = {IF ph.name = name /\ ph.block = block
                        THEN [ph EXCEPT !.incoming = Append(@, pred)] ELSE ph : ph \in @}]

push(r, f) == [r EXCEPT !.stack = Append(@, f)]
pop(r) == [r EXCEPT !.stack = SubSeq(@, 1, Len(@) - 1)]
setTop(r, f) == [r EXCEPT !.stack[Len(r.stack)] = f]
top == ssa.stack[Len(ssa.stack)]

Generating == ssa.pc = "run"
InCall(fn) == Generating /\ ssa.stack # << >> /\ top.fn = fn
AtToken(t) == Generating /\ ssa.stack = << >> /\ ssa.ip <= Len(ssa.prog) /\ ssa.prog[ssa.ip] = t
advance(r) == [r EXCEPT !.ip = @ + 1]

\* a function that must return a value ends without a return statement
flowOff(r) == IF r.flowOff = "traps" THEN [r EXCEPT !.pc = "crashed"] ELSE r

FunctionDefinition ==
  /\ ssa.pc = "start"
  /\ LET bound == [ssa EXCEPT !.values_ = {<<n, nullptr>> : n \in Names}]
         entry == createBlock(bound)
     IN SsaStep(push([entry EXCEPT !.pc = "run", !.cur = entry.nblocks],
                     Frame("seal_block", "", entry.nblocks, "phis", 1)))

FunctionReturn ==
  /\ Generating /\ ssa.stack = << >> /\ ssa.ip > Len(ssa.prog)
  /\ SsaStep([ssa EXCEPT !.pc = "returned", !.hasInstr = @ \cup {ssa.cur}])

NamedExpression ==
  /\ AtToken("read")
  /\ \E n \in Names : SsaStep(push(advance(ssa), Frame("get_value", n, ssa.cur, "lookup", 1)))

AssignmentExpression ==
  /\ AtToken("write")
  /\ \E n \in Names : SsaStep(set_value(advance(ssa), n, ssa.cur))

IterationBegin ==
  /\ AtToken("for")
  /\ LET r1 == createBlock(ssa)
         loop_bb == r1.nblocks
         r2 == createBlock(r1)
         next_bb == r2.nblocks
         r3 == createBr(r2, loop_bb)
     IN SsaStep(advance([r3 EXCEPT !.cur = loop_bb,
                                   !.ctl = Append(@, [kind |-> "for", a |-> loop_bb, b |-> next_bb, c |-> nullptr])]))

IterationEnd ==
  /\ AtToken("endfor")
  /\ LET c == ssa.ctl[Len(ssa.ctl)]
         r1 == createBr(createBr(ssa, c.a), c.b)
         r2 == [r1 EXCEPT !.cur = c.b, !.ctl = SubSeq(@, 1, Len(@) - 1)]
     IN SsaStep(advance(push(push(r2, Frame("seal_block", "", c.b, "phis", 1)),
                             Frame("seal_block", "", c.a, "phis", 1))))

SelectionBegin ==
  /\ AtToken("if") \/ AtToken("ifelse")
  /\ LET hasElse == ssa.prog[ssa.ip] = "ifelse"
         r1 == createBlock(ssa)
         then_bb == r1.nblocks
         r2 == IF hasElse THEN createBlock(r1) ELSE r1
         else_bb == IF hasElse THEN r2.nblocks ELSE nullptr
         r3 == createBlock(r2)
         endif_bb == r3.nblocks
         r4 == createBr(createBr(r3, then_bb), IF hasElse THEN else_bb ELSE endif_bb)
     IN SsaStep(advance([r4 EXCEPT !.cur = then_bb,
                                   !.ctl = Append(@, [kind |-> "if", a |-> then_bb, b |-> else_bb, c |-> endif_bb])]))

SelectionElse ==
  /\ AtToken("else")
  /\ LET c == ssa.ctl[Len(ssa.ctl)]
     IN SsaStep(advance([createBr(ssa, c.c) EXCEPT !.cur = c.b]))

SelectionEnd ==
  /\ AtToken("endif")
  /\ LET c == ssa.ctl[Len(ssa.ctl)]
         r1 == IF c.b # nullptr THEN createBr(ssa, c.c) ELSE ssa
     IN SsaStep(flowOff(advance([r1 EXCEPT !.cur = c.c, !.ctl = SubSeq(@, 1, Len(@) - 1)])))

get_value ==
  /\ InCall("get_value")
  /\ SsaStep(IF <<top.name, top.block>> \in ssa.values_
               THEN pop(ssa)
               ELSE setTop(ssa, Frame("get_value_recursive", top.name, top.block, "enter", 1)))

get_value_recursive ==
  /\ InCall("get_value_recursive")
  /\ LET n == top.name
         b == top.block
         ps == ssa.preds[b]
         at(a) == Frame("get_value_recursive", n, b, a, 1)
         lookup(blk) == Frame("get_value", n, blk, "lookup", 1)
     IN CASE top.at = "enter" /\ b \notin ssa.sealed_blocks_ ->
               SsaStep(push(setTop(ssa, at("unsealed")), lookup(ps[1])))
          [] top.at = "enter" /\ b \in ssa.sealed_blocks_ /\ Len(ps) <= 1 ->
               SsaStep(push(setTop(ssa, at("single")), lookup(IF Len(ps) = 1 THEN ps[1] ELSE nullptr)))
          [] top.at = "enter" /\ b \in ssa.sealed_blocks_ /\ Len(ps) > 1 ->
               SsaStep(push(setTop(ssa, at("phi")), lookup(ps[1])))
          [] top.at = "unsealed" ->
               SsaStep(pop(set_value([make_phi(ssa, n, b) EXCEPT !.incomplete_phis_ = @ \cup {<<n, b>>}], n, b)))
          [] top.at = "single" ->
               SsaStep(pop(set_value(ssa, n, b)))
          [] top.at = "phi" ->
               SsaStep(push(setTop(set_value(make_phi(ssa, n, b), n, b), at("operands")),
                            Frame("add_phi_operands", n, b, "next", 1)))
          [] top.at = "operands" ->
               SsaStep(pop(set_value(ssa, n, b)))

add_phi_operands ==
  /\ InCall("add_phi_operands")
  /\ LET n == top.name
         b == top.block
         ps == ssa.preds[b]
     IN CASE top.at = "next" /\ top.i > Len(ps) -> SsaStep(pop(ssa))
          [] top.at = "next" /\ top.i <= Len(ps) ->
               SsaStep(push(setTop(ssa, Frame("add_phi_operands", n, b, "value", top.i)),
                            Frame("get_value", n, ps[top.i], "lookup", 1)))
          [] top.at = "value" ->
               SsaStep(setTop(addIncoming(ssa, n, b, ps[top.i]),
                              Frame("add_phi_operands", n, b, "next", top.i + 1)))

seal_block ==
  /\ InCall("seal_block")
  /\ LET b == top.block
         todo == SelectSeq(NameOrder, LAMBDA n : <<n, b>> \in ssa.incomplete_phis_)
     IN IF top.i <= Len(todo)
          THEN SsaStep(push(setTop(ssa, Frame("seal_block", "", b, "phis", top.i + 1)),
                            Frame("add_phi_operands", todo[top.i], b, "next", 1)))
          ELSE SsaStep(flowOff(pop([ssa EXCEPT !.sealed_blocks_ = @ \cup {b}])))

SsaNext ==
  \/ FunctionDefinition
  \/ FunctionReturn
  \/ NamedExpression
  \/ AssignmentExpression
  \/ IterationBegin
  \/ IterationEnd
  \/ SelectionBegin
  \/ SelectionElse
  \/ SelectionEnd
  \/ get_value
  \/ get_value_recursive
  \/ add_phi_operands
  \/ seal_block

SpecSsa == SsaInit /\ [][SsaNext]_vars


\* the lookups under way that found no recorded value: the calls of get_value_recursive
\* on the stack, outermost first
pendingLookups == SelectSeq(ssa.stack, LAMBDA f : f.fn = "get_value_recursive")

\* C29: a variable lookup terminates on every control-flow graph the statement generators
\* build, whatever the order in which the predecessors of a block are enumerated: the
\* recursion of get_value, get_value_recursive and add_phi_operands never enters
\* get_value_recursive for a (name, block) pair for which a call is already under way,
\* and so never exhausts the stack
C29_LookupTerminates ==
  ssa.pc \in {"run", "overflow"} =>
    /\ ssa.pc # "overflow"
    /\ \A i, j \in DOMAIN pendingLookups :
         i < j => <<pendingLookups[i].name, pendingLookups[i].block>>
                    # <<pendingLookups[j].name, pendingLookups[j].block>>

\* every block the function definition created
createdBlocks == 1..ssa.nblocks

allSealed == createdBlocks \subseteq ssa.sealed_blocks_

\* every incomplete phi has one incoming value per predecessor of its block
phisComplete ==
  \A ph \in ssa.phis :
    <<ph.name, ph.block>> \in ssa.incomplete_phis_ => ph.incoming = ssa.preds[ph.block]

\* the function definition is generated by steps that are taken one after the other
\* until function_definition::codegen returns or the process dies
SpecSsaFair == SsaInit /\ [][SsaNext]_vars /\ WF_vars(SsaNext)

\* C30: every block created while a function definition is generated is eventually
\* sealed, and when function_definition::codegen returns every block is sealed and every
\* incomplete phi has received exactly one incoming value per predecessor of its block,
\* for the blocks of iteration statements and of selection statements alike
C30_EveryBlockSealed ==
  /\ \A b \in 1..(2 * MaxToks + 1) :
       (ssa.pc \in {"run", "returned"} /\ b \in createdBlocks) ~> (b \in ssa.sealed_blocks_)
  /\ [](ssa.pc = "returned" => allSealed /\ phisComplete)

====
